---- MODULE Spec2Model ----
(***************************************************************************)
(* A model of the script executor service of main.go: the catalog load     *)
(* (loadScriptDefinitions), the two handlers (listScripts, executeScript), *)
(* the process tracking helpers (notifyProcessTrackingCreate,              *)
(* notifyProcessTrackingUpdate), the parameter binding helpers             *)
(* (sanitizeEnvVarName, isValidEnvVarName, the %q quoting) and the shells  *)
(* that read the constructed kubectl line.                                 *)
(*                                                                         *)
(* Text is a sequence of atoms.  An atom is either one character that a    *)
(* shell, the quoting or the sanitizer treats specially, or a piece of     *)
(* text made of ordinary characters only (a letter, "pwd", "kubectl").     *)
(* Names that the code takes apart character by character (script names,   *)
(* parameter names) are written one character per atom.                    *)
(***************************************************************************)
EXTENDS Integers, Sequences, FiniteSets, TLC

\* ------------------------------------------------------------------ atoms

SQ == "'"
DQ == "\""
BS == "\\"
DL == "$"
\* The backquote character (written by name: the parser of this language reads
\* a backquote as the start of quoted text).
BQ == "<backquote>"
SP == " "
SC == ";"
NL == "\n"
EQ == "="

\* The characters with a meaning for sh and bash, among the atoms of the model.
ShellSpecial == {SQ, DQ, BS, DL, BQ, SP, SC, NL}

\* What a shell puts in place of $name and of a
\* backquoted command: text that the shell
\* computes from its own environment, not the text that was written.
Expanded == "<expansion>"
Substituted == "<command output>"

Uppers == <<"A","B","C","D","E","F","G","H","I","J","K","L","M",
            "N","O","P","Q","R","S","T","U","V","W","X","Y","Z">>
Lowers == <<"a","b","c","d","e","f","g","h","i","j","k","l","m",
            "n","o","p","q","r","s","t","u","v","w","x","y","z">>
Digits == <<"0","1","2","3","4","5","6","7","8","9">>

Range(s) == {s[i] : i \in DOMAIN s}

IsLetter(c) == c \in Range(Uppers) \cup Range(Lowers)
IsDigit(c) == c \in Range(Digits)

RECURSIVE Concat(_)
Concat(ss) == IF ss = <<>> THEN <<>> ELSE Head(ss) \o Concat(Tail(ss))

\* strings.Join(parts, sep)
RECURSIVE Join(_, _)
Join(parts, sep) ==
    IF parts = <<>> THEN <<>>
    ELSE IF Len(parts) = 1 THEN parts[1]
    ELSE parts[1] \o sep \o Join(Tail(parts), sep)

\* ------------------------------------------------- loadScriptDefinitions

\* strings.ToLower, one character
ToLowerChar(c) ==
    IF c \in Range(Uppers)
    THEN Lowers[CHOOSE i \in DOMAIN Uppers : Uppers[i] = c]
    ELSE c

\* DeriveID without the replacement of the spaces.
DeriveIDKeepsSpaces(name) == [i \in DOMAIN name |-> ToLowerChar(name[i])]

\* strings.ToLower(strings.ReplaceAll(name, " ", "-"))
DeriveID(name) ==
    [i \in DOMAIN name |-> IF name[i] = SP THEN "-" ELSE ToLowerChar(name[i])]

\* What the file at ScriptsPath can be: unreadable, not JSON for the
\* definitions, or a list of entries as json.Unmarshal decodes them.
Unreadable == "unreadable"
Malformed == "malformed"

\* The first parameter of an entry with an empty name (0: none).
FirstBadParam(entry) ==
    LET bad == {j \in DOMAIN entry.parameters : entry.parameters[j].name = <<>>}
    IN  IF bad = {} THEN 0 ELSE CHOOSE j \in bad : \A k \in bad : j <= k

\* The first top-level option of an entry with an empty id or name (0: none).
FirstBadOption(entry) ==
    LET bad == {j \in DOMAIN entry.options :
                    entry.options[j].id = "" \/ entry.options[j].name = ""}
    IN  IF bad = {} THEN 0 ELSE CHOOSE j \in bad : \A k \in bad : j <= k

\* EntryError with the check of the command left out.
EntryErrorIgnoresCommand(entry) ==
    IF entry.name = <<>> THEN "missing name"
    ELSE IF FirstBadParam(entry) # 0 THEN "missing parameter name"
    ELSE IF FirstBadOption(entry) # 0 THEN "bad option"
    ELSE ""

\* The validation of one entry (the body of the loop): "" when it passes.
EntryError(entry) ==
    IF entry.name = <<>> THEN "missing name"
    ELSE IF entry.command = <<>> THEN "missing command"
    ELSE IF FirstBadParam(entry) # 0 THEN "missing parameter name"
    ELSE IF FirstBadOption(entry) # 0 THEN "bad option"
    ELSE ""

\* One entry as the loop leaves it: the id derived from the name when it was
\* empty, each empty parameter type set to "string".
Normalized(entry) ==
    [entry EXCEPT
        !.id = IF entry.id = <<>> THEN DeriveID(entry.name) ELSE entry.id,
        !.parameters = [j \in DOMAIN entry.parameters |->
            [entry.parameters[j] EXCEPT
                !.type = IF entry.parameters[j].type = "" THEN "string"
                         ELSE entry.parameters[j].type]]]

loadScriptDefinitions(file) ==
    IF file.state = Unreadable THEN [err |-> "read", definitions |-> <<>>]
    ELSE IF file.state = Malformed THEN [err |-> "parse", definitions |-> <<>>]
    ELSE LET entries == file.entries
             bad == {i \in DOMAIN entries : EntryError(entries[i]) # ""}
         IN  IF bad # {}
             THEN [err |-> EntryError(entries[CHOOSE i \in bad : \A k \in bad : i <= k]),
                   definitions |-> <<>>]
             ELSE [err |-> "",
                   definitions |-> [i \in DOMAIN entries |-> Normalized(entries[i])]]

\* ------------------------------------------------------ parameter binding

\* sanitizeEnvVarName with the underscore put in front of every name that is
\* not empty.
sanitizeEnvVarNamePrefixAlways(name) ==
    LET replaced ==
            [i \in DOMAIN name |-> IF IsLetter(name[i]) \/ IsDigit(name[i]) \/ name[i] = "_"
                             THEN name[i] ELSE "_"]
    IN  IF Len(replaced) > 0 THEN <<"_">> \o replaced ELSE replaced

\* sanitizeEnvVarName without the underscore in front of a leading digit.
sanitizeEnvVarNameNoPrefix(name) ==
    [i \in DOMAIN name |-> IF IsLetter(name[i]) \/ IsDigit(name[i]) \/ name[i] = "_"
                             THEN name[i] ELSE "_"]

\* sanitizeEnvVarName: every maximal run of characters outside [a-zA-Z0-9_]
\* becomes one underscore; a leading digit gets an underscore in front.
IsEnvChar(c) == IsLetter(c) \/ IsDigit(c) \/ c = "_"

RECURSIVE ReplaceRuns(_, _)
ReplaceRuns(name, inRun) ==
    IF name = <<>> THEN <<>>
    ELSE IF IsEnvChar(Head(name)) THEN <<Head(name)>> \o ReplaceRuns(Tail(name), FALSE)
    ELSE IF inRun THEN ReplaceRuns(Tail(name), TRUE)
    ELSE <<"_">> \o ReplaceRuns(Tail(name), TRUE)

sanitizeEnvVarName(name) ==
    LET replaced == ReplaceRuns(name, FALSE)
    IN  IF Len(replaced) > 0 /\ IsDigit(replaced[1]) THEN <<"_">> \o replaced
        ELSE replaced

isValidEnvVarName(name) ==
    /\ name # <<>>
    /\ \A i \in DOMAIN name :
          \/ IsLetter(name[i])
          \/ name[i] = "_"
          \/ (IsDigit(name[i]) /\ i > 1)

\* strconv.FormatFloat for the whole numbers below 10^6 (the larger ones are
\* written with an exponent and are not among the values of the model).
RECURSIVE DecimalDigits(_)
DecimalDigits(n) ==
    IF n < 10 THEN <<Digits[n + 1]>>
    ELSE DecimalDigits(n \div 10) \o <<Digits[(n % 10) + 1]>>

\* fmt.Sprintf("%v", value) of a decoded JSON value
Stringify(value) ==
    CASE value.tag = "string" -> value.text
      [] value.tag = "number" -> DecimalDigits(value.n)
      [] value.tag = "bool" -> IF value.b THEN <<"true">> ELSE <<"false">>
      [] OTHER -> <<"<nil>">>

\* fmt.Sprintf("%q", s): double quotes around s, with a backslash before each
\* double quote and backslash, and a newline written \n.
RECURSIVE GoEscape(_)
GoEscape(s) ==
    IF s = <<>> THEN <<>>
    ELSE (CASE Head(s) \in {DQ, BS} -> <<BS, Head(s)>>
            [] Head(s) = NL -> <<BS, "n">>
            [] OTHER -> <<Head(s)>>) \o GoEscape(Tail(s))

GoQuote(s) == <<DQ>> \o GoEscape(s) \o <<DQ>>

\* ----------------------------------------------------------------- shells

(***************************************************************************)
(* How sh (the local shell of exec.Command("sh", "-c", execCmd)) and bash  *)
(* (the remote /bin/bash -c) read a command line: quote removal, backslash *)
(* escapes, $name expansion, backquote substitution, word splitting at     *)
(* spaces and command splitting at ; and newline.  The state of the reader *)
(* is a record: the quoting mode, the word being read, the words of the    *)
(* command being read, the commands read, the number of substitutions      *)
(* (commands the reading shell runs itself) and whether the syntax is      *)
(* valid so far.                                                           *)
(***************************************************************************)
LexStart ==
    [mode |-> "plain", cur |-> <<>>, inWord |-> FALSE, words |-> <<>>,
     cmds |-> <<>>, substitutions |-> 0, ok |-> TRUE]

AddAtom(st, c) == [st EXCEPT !.cur = st.cur \o <<c>>, !.inWord = TRUE]

EndWord(st) ==
    IF st.inWord
    THEN [st EXCEPT !.words = st.words \o <<st.cur>>, !.cur = <<>>, !.inWord = FALSE]
    ELSE st

EndCommand(st) ==
    LET w == EndWord(st)
    IN  IF w.words = <<>> THEN w
        ELSE [w EXCEPT !.cmds = w.cmds \o <<w.words>>, !.words = <<>>]

\* The position of the backquote that closes the one at i (0: none); a
\* backslash keeps the atom after it from closing.
RECURSIVE ClosingBackquote(_, _)
ClosingBackquote(s, j) ==
    IF j > Len(s) THEN 0
    ELSE IF s[j] = BS THEN ClosingBackquote(s, j + 2)
    ELSE IF s[j] = BQ THEN j
    ELSE ClosingBackquote(s, j + 1)

\* $ starts an expansion when a name follows it; alone it is an ordinary character.
StartsName(s, i) == i <= Len(s) /\ s[i] \notin ShellSpecial

RECURSIVE Lex(_, _, _)
Lex(s, i, st) ==
    IF ~st.ok THEN st
    ELSE IF i > Len(s)
    THEN IF st.mode = "plain" THEN EndCommand(st) ELSE [st EXCEPT !.ok = FALSE]
    ELSE LET c == s[i] IN
      CASE st.mode = "single" ->
             IF c = SQ THEN Lex(s, i + 1, [st EXCEPT !.mode = "plain"])
             ELSE Lex(s, i + 1, AddAtom(st, c))
        [] c = DL /\ st.mode # "single" ->
             IF StartsName(s, i + 1) THEN Lex(s, i + 2, AddAtom(st, Expanded))
             ELSE Lex(s, i + 1, AddAtom(st, c))
        [] c = BQ /\ st.mode # "single" ->
             LET j == ClosingBackquote(s, i + 1)
             IN  IF j = 0 THEN [st EXCEPT !.ok = FALSE]
                 ELSE Lex(s, j + 1,
                          [AddAtom(st, Substituted) EXCEPT
                               !.substitutions = st.substitutions + 1])
        [] st.mode = "double" /\ c = DQ -> Lex(s, i + 1, [st EXCEPT !.mode = "plain"])
        [] st.mode = "double" /\ c = BS ->
             IF i = Len(s) THEN [st EXCEPT !.ok = FALSE]
             ELSE IF s[i + 1] = NL THEN Lex(s, i + 2, st)
             ELSE IF s[i + 1] \in {DL, BQ, DQ, BS} THEN Lex(s, i + 2, AddAtom(st, s[i + 1]))
             ELSE Lex(s, i + 1, AddAtom(st, c))
        [] st.mode = "double" -> Lex(s, i + 1, AddAtom(st, c))
        [] c = SP -> Lex(s, i + 1, EndWord(st))
        [] c \in {SC, NL} -> Lex(s, i + 1, EndCommand(st))
        [] c = SQ -> Lex(s, i + 1, [st EXCEPT !.mode = "single", !.inWord = TRUE])
        [] c = DQ -> Lex(s, i + 1, [st EXCEPT !.mode = "double", !.inWord = TRUE])
        [] c = BS ->
             IF i = Len(s) THEN Lex(s, i + 1, AddAtom(st, c))
             ELSE IF s[i + 1] = NL THEN Lex(s, i + 2, st)
             ELSE Lex(s, i + 2, AddAtom(st, s[i + 1]))
        [] OTHER -> Lex(s, i + 1, AddAtom(st, c))

\* What a shell makes of a command line: whether it parses, the commands it
\* runs (each a sequence of words) and how many substitutions it ran.
ShellRead(line) ==
    LET st == Lex(line, 1, LexStart)
    IN  [ok |-> st.ok,
         cmds |-> IF st.ok THEN st.cmds ELSE <<>>,
         substitutions |-> st.substitutions]

\* The position of the first = of a word (0: none).
FirstEq(word) ==
    LET at == {i \in DOMAIN word : word[i] = EQ}
    IN  IF at = {} THEN 0 ELSE CHOOSE i \in at : \A k \in at : i <= k

IsAssignment(word) ==
    FirstEq(word) > 1 /\ isValidEnvVarName(SubSeq(word, 1, FirstEq(word) - 1))

\* The words NAME=value that lead a command: the environment bash gives it.
RECURSIVE LeadingAssignments(_)
LeadingAssignments(words) ==
    IF words = <<>> \/ ~IsAssignment(Head(words)) THEN <<>>
    ELSE <<[name |-> SubSeq(Head(words), 1, FirstEq(Head(words)) - 1),
            value |-> SubSeq(Head(words), FirstEq(Head(words)) + 1, Len(Head(words)))]>>
         \o LeadingAssignments(Tail(words))

\* --------------------------------------------------- process tracking ids

\* strconv.FormatInt(n, 10)
FormatInt(n) == IF n < 0 THEN <<"-">> \o DecimalDigits(0 - n) ELSE DecimalDigits(n)

DigitValue(c) == (CHOOSE i \in DOMAIN Digits : Digits[i] = c) - 1

RECURSIVE DigitsValue(_, _)
DigitsValue(s, acc) ==
    IF s = <<>> THEN acc ELSE DigitsValue(Tail(s), acc * 10 + DigitValue(Head(s)))

\* strconv.ParseInt(text, 10, 64), for the numbers that fit: an optional sign,
\* then one digit or more and nothing else.
ParseInt(text) ==
    LET signed == text # <<>> /\ Head(text) \in {"-", "+"}
        digits == IF signed THEN Tail(text) ELSE text
    IN  IF digits = <<>> \/ \E i \in DOMAIN digits : ~IsDigit(digits[i])
        THEN [ok |-> FALSE, n |-> 0]
        ELSE [ok |-> TRUE,
              n |-> IF signed /\ Head(text) = "-" THEN 0 - DigitsValue(digits, 0)
                    ELSE DigitsValue(digits, 0)]

\* ------------------------------------------------------------ the catalog

Param(name, type, optional) ==
    [name |-> name, type |-> type, description |-> "", optional |-> optional]

PSeconds == <<"s","e","c","o","n","d","s">>
PDateRange == <<"D","a","t","e"," ","R","a","n","g","e">>

NameWhere == <<"w","h","e","r","e"," ","a","m"," ","i">>
NameSleep == <<"S","l","e","e","p"," ","X">>
NameLoad == <<"L","o","a","d">>
NameUnknown == <<"n","o","n","e">>

EntryWhere ==
    [id |-> <<"pwd-script">>, name |-> NameWhere, command |-> <<"pwd">>,
     parameters |-> <<>>, stage |-> "", monitorProcess |-> FALSE, options |-> <<>>]

EntrySleep ==
    [id |-> <<>>, name |-> NameSleep, command |-> <<"sleep", SP, DL, "seconds">>,
     parameters |-> <<Param(PSeconds, "number", FALSE)>>,
     stage |-> "", monitorProcess |-> TRUE, options |-> <<>>]

\* An optional parameter first, a required one after it.
EntryLoad ==
    [id |-> <<>>, name |-> NameLoad, command |-> <<"load.sh">>,
     parameters |-> <<Param(PDateRange, "", TRUE), Param(PSeconds, "", FALSE)>>,
     stage |-> "LOAD", monitorProcess |-> TRUE,
     options |-> <<[id |-> "opt1", name |-> "Option 1"]>>]

\* A second entry with the name of EntryWhere.
EntryWhereAgain ==
    [EntryWhere EXCEPT !.id = <<"second">>, !.command = <<"ls">>, !.stage = "SECOND"]

JSONFile(entries) == [state |-> "json", entries |-> entries]
UnreadableFile == [state |-> Unreadable, entries |-> <<>>]
MalformedFile == [state |-> Malformed, entries |-> <<>>]

\* The same entries with other command text.
WithCommands(entries, command) ==
    [i \in DOMAIN entries |-> [entries[i] EXCEPT !.command = command]]

MainEntries == <<EntryWhere, EntrySleep, EntryLoad>>

\* The contents the file at ScriptsPath has in the model.
Files ==
    { JSONFile(MainEntries),
      JSONFile(WithCommands(MainEntries, <<"secret", SP, "--token", SP, "t0p">>)),
      JSONFile(<<EntryWhere, EntryWhereAgain>>),
      JSONFile(<<>>),
      JSONFile(<<EntryWhere, [EntrySleep EXCEPT !.name = <<>>]>>),
      JSONFile(<<[EntryWhere EXCEPT !.command = <<>>], EntrySleep>>),
      JSONFile(<<[EntrySleep EXCEPT !.parameters = <<Param(<<>>, "", FALSE)>>]>>),
      JSONFile(<<[EntryLoad EXCEPT !.options = <<[id |-> "", name |-> "Option"]>>]>>),
      UnreadableFile,
      MalformedFile }

\* ----------------------------------------------------------- the requests

VString(text) == [tag |-> "string", text |-> text]
VNumber(n) == [tag |-> "number", n |-> n]
VBool(b) == [tag |-> "bool", b |-> b]

KeyName == <<"n","a","m","e">>

\* The values a caller gives a parameter in the model: plain text, a number,
\* a boolean, and text with the characters the shells and %q treat specially.
ParamValues ==
    { VString(<<"a", "b">>),
      VNumber(5),
      VBool(TRUE),
      VString(<<DL, "a">>),
      VString(<<SQ, SP, SQ>>),
      VString(<<"a", DQ, BS, "b">>) }

\* taskData: the keys of a JSON object with their values.  A key with the
\* marker Absent is not in the object.
Absent == [tag |-> "absent"]

TaskData(name, seconds, dateRange) ==
    LET all == (KeyName :> name) @@ (PSeconds :> seconds) @@ (PDateRange :> dateRange)
        keys == {k \in DOMAIN all : all[k] # Absent}
    IN  [k \in keys |-> all[k]]

NameValues ==
    { Absent, VNumber(1), VString(<<>>), VString(NameUnknown),
      VString(NameWhere), VString(NameSleep), VString(NameLoad) }

\* The bodies of POST /v1/execute: one that does not bind to
\* TaskServiceRequest, and the ones that do.
Requests ==
    { [bodyOK |-> FALSE, TrackingID |-> "", TaskName |-> "", TaskData |-> <<>>] }
    \cup
    { [bodyOK |-> TRUE, TrackingID |-> t, TaskName |-> "task",
       TaskData |-> TaskData(n, s, d)] :
         t \in {"", "t1"}, n \in NameValues,
         s \in {Absent} \cup ParamValues, d \in {Absent, VString(<<"b">>)} }

\* ----------------------------------------------------------- configuration

\* loadConfig: the namespace and the selector have defaults; the tracking URL
\* is the environment variable as it is, "" when unset.
Namespace == <<"default">>
PodLabelSelector == <<"app", EQ, "query-server">>
TrackingURLs == {"", "http://tracking/process"}
ProcessTrackingStage == "EXECUTION"

maxProcessTrackingMessageLength == 1000

\* The largest identifier the tracking service hands out in the model, and by
\* how much the longest output exceeds the message limit.
MaxProcessID == 1
MaxExcess == 1

\* The numbers a processid header can hold.
ProcessIDs == {-1, 0} \cup (1 .. MaxProcessID)

\* The answers to the creation POST: no answer, a status other than 201 (an
\* error status, and 200 with a processid header), and 201 with the processid
\* header missing, not a number, or a number.
CreateAnswers ==
    { [kind |-> "transport error", processid |-> <<>>],
      [kind |-> "status 500", processid |-> <<>>],
      [kind |-> "status 200", processid |-> <<"1">>],
      [kind |-> "status 201", processid |-> <<>>],
      [kind |-> "status 201", processid |-> <<"x">>] }
    \cup { [kind |-> "status 201", processid |-> FormatInt(n)] : n \in ProcessIDs }

\* What kubectl get pods ends with: an error (with what it wrote to stderr,
\* nothing or more than a tracking message is meant to hold), no name, or the
\* name of a pod.
PodAnswers ==
    { [err |-> TRUE, out |-> <<>>, stderrLen |-> 0],
      [err |-> TRUE, out |-> <<>>,
       stderrLen |-> maxProcessTrackingMessageLength + MaxExcess],
      [err |-> FALSE, out |-> <<>>, stderrLen |-> 0],
      [err |-> FALSE, out |-> <<"pod-X">>, stderrLen |-> 0] }

\* What the kubectl exec line ends with: failure or success, and the length of
\* the combined output.
OutputLengths ==
    {0, maxProcessTrackingMessageLength, maxProcessTrackingMessageLength + MaxExcess}
ExecAnswers == [err : BOOLEAN, outLen : OutputLengths]

\* ------------------------------------------------------------------ state

Reqs == {"r1", "r2"}

\* What a service account can be allowed to do with pods: the three rules of
\* the role the service is deployed with.
GetPods == [verb |-> "get", resource |-> "pods", subresource |-> ""]
ListPods == [verb |-> "list", resource |-> "pods", subresource |-> ""]
CreatePodsExec == [verb |-> "create", resource |-> "pods", subresource |-> "exec"]
Grants == {GetPods, ListPods, CreatePodsExec}

\* The permissions checkPermissions asks about, in its order.
requiredPermissions == <<GetPods, CreatePodsExec>>

VARIABLES
    file,                \* the content of the file at ScriptsPath
    ProcessTrackingURL,  \* PROCESS_TRACKING_SERVICE_URL
    pc,                  \* where the handler of each request is
    request,             \* the decoded body of each request
    selectedDefinition,  \* the definition the request selected
    numericProcessID,    \* the identifier from the creation call
    pending,             \* the response to write once the last update returned
    response,            \* the response written
    log,                 \* what each handler did, in order
    listResponse,        \* the last response of GET /v1/options
    server,              \* where main is
    rbac,                \* what the cluster lets the service account do
    reviews              \* the access reviews checkPermissions made, in order

vars == <<file, ProcessTrackingURL, pc, request, selectedDefinition,
          numericProcessID, pending, response, log, listResponse,
          server, rbac, reviews>>

\* The variables of main, which no handler changes.
startup == <<server, rbac, reviews>>

NoRequest == [bodyOK |-> FALSE, TrackingID |-> "", TaskName |-> "", TaskData |-> <<>>]
NoDefinition == [none |-> TRUE]
NoResponse == [code |-> 0, body |-> <<>>, headers |-> <<>>]

Init ==
    /\ file \in Files
    /\ ProcessTrackingURL \in TrackingURLs
    /\ pc = [r \in Reqs |-> "idle"]
    /\ request = [r \in Reqs |-> NoRequest]
    /\ selectedDefinition = [r \in Reqs |-> NoDefinition]
    /\ numericProcessID = [r \in Reqs |-> 0]
    /\ pending = [r \in Reqs |-> NoResponse]
    /\ response = [r \in Reqs |-> NoResponse]
    /\ log = [r \in Reqs |-> <<>>]
    /\ listResponse = NoResponse
    /\ server = "serving"
    /\ rbac = Grants
    /\ reviews = [i \in DOMAIN requiredPermissions |->
                     [permission |-> requiredPermissions[i], result |-> "allowed"]]

\* ------------------------------------------------------- process tracking

\* The messages of the two responses that the properties tell apart.
TrackingInitErrorText == "Failed to initialize process tracking"
MissingParameterText == "Required parameter is missing in taskData"

\* In place of an answer, when notifyProcessTrackingCreate sends no request.
NotSent == [kind |-> "not sent", processid |-> <<>>]

\* CreateNotConfigured with the check of the URL left out.
CreateNotConfiguredUnchecked == FALSE

\* notifyProcessTrackingCreate returns an error before any request is sent
\* when the URL is not configured.
CreateNotConfigured == ProcessTrackingURL = ""

\* CreateOutcome with a processid header of 0 taken for a missing identifier.
CreateOutcomeRejectsZero(answer) ==
    IF answer.kind = "transport error"
    THEN [err |-> "failed to send create request", id |-> 0]
    ELSE IF answer.kind # "status 201"
    THEN [err |-> "create request failed with status", id |-> 0]
    ELSE IF answer.processid = <<>>
    THEN [err |-> "'processid' header missing in create response", id |-> 0]
    ELSE IF ~ParseInt(answer.processid).ok \/ ParseInt(answer.processid).n = 0
    THEN [err |-> "failed to parse 'processid' header", id |-> 0]
    ELSE [err |-> "", id |-> ParseInt(answer.processid).n]

\* notifyProcessTrackingCreate, from the answer to its POST: the error it
\* returns ("" for none) and the identifier.
CreateOutcome(answer) ==
    IF answer.kind = "transport error"
    THEN [err |-> "failed to send create request", id |-> 0]
    ELSE IF answer.kind # "status 201"
    THEN [err |-> "create request failed with status", id |-> 0]
    ELSE IF answer.processid = <<>>
    THEN [err |-> "'processid' header missing in create response", id |-> 0]
    ELSE IF ~ParseInt(answer.processid).ok
    THEN [err |-> "failed to parse 'processid' header", id |-> 0]
    ELSE [err |-> "", id |-> ParseInt(answer.processid).n]

\* UpdateSkipped with the check of the URL left out.
UpdateSkippedForZeroOnly(id) == id = 0

\* notifyProcessTrackingUpdate returns without a request when the URL is not
\* set or the identifier is zero.
UpdateSkipped(id) == ProcessTrackingURL = "" \/ id = 0

\* The statuses executeScript sends, as text.
FAILED == <<"F","A","I","L","E","D">>
SUCCESSFUL == <<"S","U","C","C","E","S","S","F","U","L">>
PROGRESS == <<"P","R","O","G","R","E","S","S">>

\* strings.ToUpper
ToUpperChar(c) ==
    IF c \in Range(Lowers)
    THEN Uppers[CHOOSE i \in DOMAIN Lowers : Lowers[i] = c]
    ELSE c

ToUpper(text) == [i \in DOMAIN text |-> ToUpperChar(text[i])]

\* MessageLevel with the status compared as it is written.
MessageLevelExact(status) == IF status = FAILED THEN "ERROR" ELSE "INFO"

\* The level notifyProcessTrackingUpdate puts in the payload.
MessageLevel(status) == IF ToUpper(status) = FAILED THEN "ERROR" ELSE "INFO"

\* UpdatePost with the request sent to the path of the next identifier.
UpdatePostElsewhere(id, status, message) ==
    [e |-> "update post", id |-> id, path |-> FormatInt(id + 1), status |-> status,
     messageLevel |-> MessageLevel(status), message |-> message]

\* The POST of notifyProcessTrackingUpdate, to the creation URL with the
\* identifier appended.
UpdatePost(id, status, message) ==
    [e |-> "update post", id |-> id, path |-> FormatInt(id), status |-> status,
     messageLevel |-> MessageLevel(status), message |-> message]

\* notifyProcessTrackingUpdate: the request it sends for a payload, if any.
\* The level of the payload is set from the status whatever it held.
notifyProcessTrackingUpdate(id, payload) ==
    IF UpdateSkipped(id) THEN <<>>
    ELSE <<UpdatePost(id, payload.Status, payload.Message)>>

\* Truncated with the output passed on whole.
TruncatedNever(outLen) == [len |-> outLen, marker |-> FALSE]

\* The output as the tracking message carries it.
Truncated(outLen) ==
    IF outLen > maxProcessTrackingMessageLength
    THEN [len |-> maxProcessTrackingMessageLength, marker |-> TRUE]
    ELSE [len |-> outLen, marker |-> FALSE]

\* A message: its fixed text and the text that follows it (the output of the
\* command, the error of getTargetPod, the name of a parameter), of which the
\* model keeps the length and whether the truncation marker ends it.
Message(text, output) == [text |-> text, output |-> output]
NoOutput == [len |-> 0, marker |-> FALSE]
Untruncated(length) == [len |-> length, marker |-> FALSE]

\* The lengths of the fixed texts: "Script execution starting"; "Execution
\* error: exit status 1" with the line "--- Output ---" between two newlines;
\* "Failed to find target pod: "; "Required parameter '" with "' missing";
\* and the marker "... (truncated)".
StartingLength == 25
ExecutionErrorLength == 46
FindPodFailedLength == 27
ParameterMissingLength == 29
MarkerLength == 15

FixedLength(text) ==
    CASE text = "Script execution starting" -> StartingLength
      [] text = "Execution error" -> ExecutionErrorLength
      [] text = "Failed to find target pod" -> FindPodFailedLength
      [] text = "Required parameter missing" -> ParameterMissingLength
      [] OTHER -> 0

\* The number of characters of a message.
MessageLength(message) ==
    FixedLength(message.text) + message.output.len
        + (IF message.output.marker THEN MarkerLength ELSE 0)

\* --------------------------------------------------------- executeScript

\* The condition that guards the tracking block.
TrackingEnabled(definition) ==
    definition.monitorProcess \/ definition.monitorProcess = FALSE

\* The stage of the creation payload: the one of the script, else the configured one.
StageOf(definition) ==
    IF definition.stage # "" THEN definition.stage ELSE ProcessTrackingStage

\* FirstMatch with the first definition taken when none has the name.
FirstMatchOrFirst(definitions, name) ==
    LET at == {i \in DOMAIN definitions : definitions[i].name = name}
    IN  IF at = {} THEN (IF definitions = <<>> THEN 0 ELSE 1)
        ELSE CHOOSE i \in at : \A k \in at : i <= k

\* FirstMatch with the last definition of the name taken.
LastMatch(definitions, name) ==
    LET at == {i \in DOMAIN definitions : definitions[i].name = name}
    IN  IF at = {} THEN 0 ELSE CHOOSE i \in at : \A k \in at : i >= k

\* The index of the first definition with the requested name (0: none).
FirstMatch(definitions, name) ==
    LET at == {i \in DOMAIN definitions : definitions[i].name = name}
    IN  IF at = {} THEN 0 ELSE CHOOSE i \in at : \A k \in at : i <= k

\* One assignment of the environment prefix: NAME="value" with the %q quoting.
Assignment(envVarName, paramValueStr) == envVarName \o <<EQ>> \o GoQuote(paramValueStr)

\* BindLoop with the check of a missing required parameter left out: every
\* missing parameter is skipped as an optional one is.
RECURSIVE BindLoopSkipsMissing(_, _, _)
BindLoopSkipsMissing(parameters, taskData, envVars) ==
    IF parameters = <<>> THEN [err |-> "", parameter |-> <<>>, envVars |-> envVars]
    ELSE LET paramDef == Head(parameters) IN
         IF paramDef.name \notin DOMAIN taskData
         THEN BindLoopSkipsMissing(Tail(parameters), taskData, envVars)
         ELSE BindLoopSkipsMissing(Tail(parameters), taskData,
                  Append(envVars,
                         Assignment(sanitizeEnvVarName(paramDef.name),
                                    Stringify(taskData[paramDef.name]))))

\* BindLoop with the check of a missing required parameter made for the first
\* declared parameter only.
BindLoopChecksFirstOnly(parameters, taskData, envVars) ==
    IF /\ parameters # <<>>
       /\ Head(parameters).name \notin DOMAIN taskData
       /\ ~Head(parameters).optional
    THEN [err |-> "missing", parameter |-> Head(parameters).name, envVars |-> envVars]
    ELSE BindLoopSkipsMissing(parameters, taskData, envVars)

\* BindLoop with the key "name" of taskData, which no script declares, bound
\* after the declared parameters.
RECURSIVE BindLoopBindsScriptName(_, _, _)
BindLoopBindsScriptName(parameters, taskData, envVars) ==
    IF parameters = <<>>
    THEN [err |-> "", parameter |-> <<>>,
          envVars |-> IF KeyName \in DOMAIN taskData
                      THEN Append(envVars, Assignment(sanitizeEnvVarName(KeyName),
                                                      Stringify(taskData[KeyName])))
                      ELSE envVars]
    ELSE LET paramDef == Head(parameters) IN
         IF paramDef.name \notin DOMAIN taskData
         THEN IF ~paramDef.optional
              THEN [err |-> "missing", parameter |-> paramDef.name, envVars |-> envVars]
              ELSE BindLoopBindsScriptName(Tail(parameters), taskData, envVars)
         ELSE LET envVarName == sanitizeEnvVarName(paramDef.name) IN
              IF ~isValidEnvVarName(envVarName)
              THEN [err |-> "internal", parameter |-> paramDef.name, envVars |-> envVars]
              ELSE BindLoopBindsScriptName(Tail(parameters), taskData,
                       Append(envVars,
                              Assignment(envVarName, Stringify(taskData[paramDef.name]))))

\* The loop over the declared parameters, from the first of parameters on:
\* the error that ends it ("" for none), the parameter it ended at, and the
\* assignments collected.
RECURSIVE BindLoop(_, _, _)
BindLoop(parameters, taskData, envVars) ==
    IF parameters = <<>> THEN [err |-> "", parameter |-> <<>>, envVars |-> envVars]
    ELSE LET paramDef == Head(parameters) IN
         IF paramDef.name \notin DOMAIN taskData
         THEN IF ~paramDef.optional
              THEN [err |-> "missing", parameter |-> paramDef.name, envVars |-> envVars]
              ELSE BindLoop(Tail(parameters), taskData, envVars)
         ELSE LET envVarName == sanitizeEnvVarName(paramDef.name) IN
              IF ~isValidEnvVarName(envVarName)
              THEN [err |-> "internal", parameter |-> paramDef.name, envVars |-> envVars]
              ELSE BindLoop(Tail(parameters), taskData,
                       Append(envVars,
                              Assignment(envVarName, Stringify(taskData[paramDef.name]))))

\* EnvPrefix without the space after the last assignment.
EnvPrefixNoTrailingSpace(envVars) == IF envVars = <<>> THEN <<>> ELSE Join(envVars, <<SP>>)

\* strings.Join(envVars, " ") + " ", or nothing without assignments.
EnvPrefix(envVars) == IF envVars = <<>> THEN <<>> ELSE Join(envVars, <<SP>>) \o <<SP>>

FullCommand(envVars, command) == EnvPrefix(envVars) \o command

\* The words in front of the single-quoted argument of the kubectl line.
ExecWords(namespace, targetPod) ==
    <<<<"kubectl">>, <<"exec">>, <<"-n">>, namespace, targetPod, <<"--">>,
      <<"/bin/bash">>, <<"-c">>>>

\* fmt.Sprintf("kubectl exec -n %s %s -- /bin/bash -c '%s'", ...)
ExecCmd(namespace, targetPod, fullCommand) ==
    Join(ExecWords(namespace, targetPod), <<SP>>) \o <<SP, SQ>> \o fullCommand \o <<SQ>>

Response(code, body) == [code |-> code, body |-> body, headers |-> <<>>]

WithProcessIdHeader(resp, id) ==
    [resp EXCEPT !.headers = [X_ProcessId |-> FormatInt(id)]]

\* Respond with the response written a second time.
RespondTwice(r, resp, events) ==
    /\ pc' = [pc EXCEPT ![r] = "done"]
    /\ response' = [response EXCEPT ![r] = resp]
    /\ log' = [log EXCEPT ![r] = @ \o events \o
           <<[e |-> "response", code |-> resp.code], [e |-> "response", code |-> resp.code]>>]
    /\ UNCHANGED pending

\* c.JSON / c.Status and return: the handler is over.
Respond(r, resp, events) ==
    /\ pc' = [pc EXCEPT ![r] = "done"]
    /\ response' = [response EXCEPT ![r] = resp]
    /\ log' = [log EXCEPT ![r] = @ \o events \o <<[e |-> "response", code |-> resp.code]>>]
    /\ UNCHANGED pending

\* UpdateAndRespond with the update left out.
UpdateAndRespondWithoutUpdate(r, id, status, message, resp, events) ==
    IF id > 0 THEN Respond(r, WithProcessIdHeader(resp, id), events)
    ELSE Respond(r, resp, events)

\* The end of the four paths that follow a creation: when the identifier is
\* above zero, the update and the X-ProcessId header; then the response.
UpdateAndRespond(r, id, status, message, resp, events) ==
    IF id > 0
    THEN IF UpdateSkipped(id)
         THEN Respond(r, WithProcessIdHeader(resp, id), events)
         ELSE /\ pc' = [pc EXCEPT ![r] = "terminal update"]
              /\ log' = [log EXCEPT ![r] = @ \o events \o <<UpdatePost(id, status, message)>>]
              /\ pending' = [pending EXCEPT ![r] = WithProcessIdHeader(resp, id)]
              /\ UNCHANGED response
    ELSE Respond(r, resp, events)

\* The call of getTargetPod: the handler waits for kubectl get pods.
CallGetTargetPod(r, events) ==
    /\ pc' = [pc EXCEPT ![r] = "get pod"]
    /\ log' = [log EXCEPT ![r] = @ \o events \o <<[e |-> "get pod"]>>]
    /\ UNCHANGED <<pending, response>>

\* AfterCreateError with a FAILED update sent for the identifier that was not
\* obtained, before the response.
AfterCreateErrorSendsUpdate(r, err, events) ==
    /\ pc' = [pc EXCEPT ![r] = "terminal update"]
    /\ log' = [log EXCEPT ![r] = @ \o events \o
           <<UpdatePost(0, FAILED, Message(TrackingInitErrorText, NoOutput))>>]
    /\ pending' = [pending EXCEPT ![r] =
           Response(500, [error |-> TrackingInitErrorText, detail |-> err])]
    /\ UNCHANGED response

\* AfterCreateError with the error only logged: the handler goes on to
\* getTargetPod.
AfterCreateErrorGoesOn(r, err, events) == CallGetTargetPod(r, events)

\* After a creation error: the request fails, without an update.
AfterCreateError(r, err, events) ==
    Respond(r, Response(500, [error |-> TrackingInitErrorText, detail |-> err]), events)

\* AfterCreate with getTargetPod called and the creation called once more.
AfterCreateCreatesAgain(r, id, events) ==
    /\ pc' = [pc EXCEPT ![r] = "create"]
    /\ log' = [log EXCEPT ![r] = @ \o events \o
           <<[e |-> "create call"],
             [e |-> "create post",
              payload |-> [name |-> request[r].TaskName,
                           processId |-> request[r].TrackingID,
                           stage |-> StageOf(selectedDefinition[r])]]>>]
    /\ UNCHANGED <<pending, response>>

\* After a creation without error: the PROGRESS update, then getTargetPod.
AfterCreate(r, id, events) ==
    IF UpdateSkipped(id)
    THEN CallGetTargetPod(r, events)
    ELSE /\ pc' = [pc EXCEPT ![r] = "progress update"]
         /\ log' = [log EXCEPT ![r] = @ \o events \o
                <<UpdatePost(id, PROGRESS, Message("Script execution starting", NoOutput))>>]
         /\ UNCHANGED <<pending, response>>

\* Receive with the definitions that an earlier request loaded used again
\* instead of the file being read.
ReceiveFromEarlierLoad(r, body) ==
    /\ server = "serving"
    /\ pc[r] = "idle"
    /\ request' = [request EXCEPT ![r] = body]
    /\ LET taskData == body.TaskData
           earlier == {q \in Reqs : selectedDefinition[q] # NoDefinition}
           loaded == IF earlier = {} THEN loadScriptDefinitions(file)
                     ELSE [err |-> "",
                           definitions |-> <<selectedDefinition[CHOOSE q \in earlier : TRUE]>>]
           actualScriptName == taskData[KeyName].text
           index == FirstMatch(loaded.definitions, actualScriptName)
           definition == loaded.definitions[index]
           received == <<[e |-> "received", generatedTrackingID |-> body.TrackingID = ""]>>
       IN
       IF ~body.bodyOK
       THEN /\ Respond(r, Response(400, [error |-> "Invalid request body"]), <<>>)
            /\ UNCHANGED <<selectedDefinition, numericProcessID>>
       ELSE IF KeyName \notin DOMAIN taskData
       THEN /\ Respond(r, Response(400, [error |-> "taskData must contain a 'name' field"]),
                       received)
            /\ UNCHANGED <<selectedDefinition, numericProcessID>>
       ELSE IF taskData[KeyName].tag # "string" \/ taskData[KeyName].text = <<>>
       THEN /\ Respond(r, Response(400, [error |-> "taskData 'name' field must be a non-empty string"]),
                       received)
            /\ UNCHANGED <<selectedDefinition, numericProcessID>>
       ELSE IF loaded.err # ""
       THEN /\ Respond(r, Response(500, [error |-> "Failed to load script definitions",
                                         detail |-> loaded.err]),
                       received \o <<[e |-> "load", err |-> loaded.err]>>)
            /\ UNCHANGED <<selectedDefinition, numericProcessID>>
       ELSE IF index = 0
       THEN /\ Respond(r, Response(404, [error |-> "Script not found"]),
                       received \o <<[e |-> "load", err |-> ""]>>)
            /\ UNCHANGED <<selectedDefinition, numericProcessID>>
       ELSE /\ selectedDefinition' = [selectedDefinition EXCEPT ![r] = definition]
            /\ UNCHANGED numericProcessID
            /\ LET events == received \o <<[e |-> "load", err |-> ""]>> IN
               IF ~TrackingEnabled(definition)
               THEN CallGetTargetPod(r, events)
               ELSE IF CreateNotConfigured
               THEN AfterCreateError(r, "process tracking URL not configured",
                        events \o <<[e |-> "create call"],
                                    [e |-> "create return", answer |-> NotSent,
                                     err |-> "process tracking URL not configured",
                                     id |-> 0]>>)
               ELSE /\ pc' = [pc EXCEPT ![r] = "create"]
                    /\ log' = [log EXCEPT ![r] = @ \o events \o
                          <<[e |-> "create call"],
                            [e |-> "create post",
                             payload |-> [name |-> body.TaskName,
                                          processId |-> body.TrackingID,
                                          stage |-> StageOf(definition)]]>>]
                    /\ UNCHANGED <<pending, response>>
    /\ UNCHANGED <<file, ProcessTrackingURL, listResponse, startup>>

\* Receive with the definitions loaded before the name of the script is
\* looked for in taskData.
ReceiveLoadsFirst(r, body) ==
    /\ server = "serving"
    /\ pc[r] = "idle"
    /\ request' = [request EXCEPT ![r] = body]
    /\ LET taskData == body.TaskData
           loaded == loadScriptDefinitions(file)
           actualScriptName == taskData[KeyName].text
           index == FirstMatch(loaded.definitions, actualScriptName)
           definition == loaded.definitions[index]
           received == <<[e |-> "received", generatedTrackingID |-> body.TrackingID = ""]>>
       IN
       IF ~body.bodyOK
       THEN /\ Respond(r, Response(400, [error |-> "Invalid request body"]), <<>>)
            /\ UNCHANGED <<selectedDefinition, numericProcessID>>
       ELSE IF loaded.err # ""
       THEN /\ Respond(r, Response(500, [error |-> "Failed to load script definitions",
                                         detail |-> loaded.err]),
                       received \o <<[e |-> "load", err |-> loaded.err]>>)
            /\ UNCHANGED <<selectedDefinition, numericProcessID>>
       ELSE IF KeyName \notin DOMAIN taskData
       THEN /\ Respond(r, Response(400, [error |-> "taskData must contain a 'name' field"]),
                       received)
            /\ UNCHANGED <<selectedDefinition, numericProcessID>>
       ELSE IF taskData[KeyName].tag # "string" \/ taskData[KeyName].text = <<>>
       THEN /\ Respond(r, Response(400, [error |-> "taskData 'name' field must be a non-empty string"]),
                       received)
            /\ UNCHANGED <<selectedDefinition, numericProcessID>>
       ELSE IF index = 0
       THEN /\ Respond(r, Response(404, [error |-> "Script not found"]),
                       received \o <<[e |-> "load", err |-> ""]>>)
            /\ UNCHANGED <<selectedDefinition, numericProcessID>>
       ELSE /\ selectedDefinition' = [selectedDefinition EXCEPT ![r] = definition]
            /\ UNCHANGED numericProcessID
            /\ LET events == received \o <<[e |-> "load", err |-> ""]>> IN
               IF ~TrackingEnabled(definition)
               THEN CallGetTargetPod(r, events)
               ELSE IF CreateNotConfigured
               THEN AfterCreateError(r, "process tracking URL not configured",
                        events \o <<[e |-> "create call"],
                                    [e |-> "create return", answer |-> NotSent,
                                     err |-> "process tracking URL not configured",
                                     id |-> 0]>>)
               ELSE /\ pc' = [pc EXCEPT ![r] = "create"]
                    /\ log' = [log EXCEPT ![r] = @ \o events \o
                          <<[e |-> "create call"],
                            [e |-> "create post",
                             payload |-> [name |-> body.TaskName,
                                          processId |-> body.TrackingID,
                                          stage |-> StageOf(definition)]]>>]
                    /\ UNCHANGED <<pending, response>>
    /\ UNCHANGED <<file, ProcessTrackingURL, listResponse, startup>>

\* The request arrives: the body is bound, the script name is taken from
\* taskData, the definitions are loaded, the script is looked up and the
\* tracking record is asked for.
Receive(r, body) ==
    /\ server = "serving"
    /\ pc[r] = "idle"
    /\ request' = [request EXCEPT ![r] = body]
    /\ LET taskData == body.TaskData
           loaded == loadScriptDefinitions(file)
           actualScriptName == taskData[KeyName].text
           index == FirstMatch(loaded.definitions, actualScriptName)
           definition == loaded.definitions[index]
           received == <<[e |-> "received", generatedTrackingID |-> body.TrackingID = ""]>>
       IN
       IF ~body.bodyOK
       THEN /\ Respond(r, Response(400, [error |-> "Invalid request body"]), <<>>)
            /\ UNCHANGED <<selectedDefinition, numericProcessID>>
       ELSE IF KeyName \notin DOMAIN taskData
       THEN /\ Respond(r, Response(400, [error |-> "taskData must contain a 'name' field"]),
                       received)
            /\ UNCHANGED <<selectedDefinition, numericProcessID>>
       ELSE IF taskData[KeyName].tag # "string" \/ taskData[KeyName].text = <<>>
       THEN /\ Respond(r, Response(400, [error |-> "taskData 'name' field must be a non-empty string"]),
                       received)
            /\ UNCHANGED <<selectedDefinition, numericProcessID>>
       ELSE IF loaded.err # ""
       THEN /\ Respond(r, Response(500, [error |-> "Failed to load script definitions",
                                         detail |-> loaded.err]),
                       received \o <<[e |-> "load", err |-> loaded.err]>>)
            /\ UNCHANGED <<selectedDefinition, numericProcessID>>
       ELSE IF index = 0
       THEN /\ Respond(r, Response(404, [error |-> "Script not found"]),
                       received \o <<[e |-> "load", err |-> ""]>>)
            /\ UNCHANGED <<selectedDefinition, numericProcessID>>
       ELSE /\ selectedDefinition' = [selectedDefinition EXCEPT ![r] = definition]
            /\ UNCHANGED numericProcessID
            /\ LET events == received \o <<[e |-> "load", err |-> ""]>> IN
               IF ~TrackingEnabled(definition)
               THEN CallGetTargetPod(r, events)
               ELSE IF CreateNotConfigured
               THEN AfterCreateError(r, "process tracking URL not configured",
                        events \o <<[e |-> "create call"],
                                    [e |-> "create return", answer |-> NotSent,
                                     err |-> "process tracking URL not configured",
                                     id |-> 0]>>)
               ELSE /\ pc' = [pc EXCEPT ![r] = "create"]
                    /\ log' = [log EXCEPT ![r] = @ \o events \o
                          <<[e |-> "create call"],
                            [e |-> "create post",
                             payload |-> [name |-> body.TaskName,
                                          processId |-> body.TrackingID,
                                          stage |-> StageOf(definition)]]>>]
                    /\ UNCHANGED <<pending, response>>
    /\ UNCHANGED <<file, ProcessTrackingURL, listResponse, startup>>

\* CreateReturn with the identifier kept in one place for all the requests
\* instead of a variable of the handler.
CreateReturnSharedIdentifier(r, answer) ==
    /\ pc[r] = "create"
    /\ LET outcome == CreateOutcome(answer)
           events == <<[e |-> "create return", answer |-> answer,
                        err |-> outcome.err, id |-> outcome.id]>>
       IN  /\ numericProcessID' = [q \in Reqs |-> outcome.id]
           /\ IF outcome.err # ""
              THEN AfterCreateError(r, outcome.err, events)
              ELSE AfterCreate(r, outcome.id, events)
    /\ UNCHANGED <<file, ProcessTrackingURL, request, selectedDefinition, listResponse, startup>>

\* The creation POST returns.
CreateReturn(r, answer) ==
    /\ pc[r] = "create"
    /\ LET outcome == CreateOutcome(answer)
           events == <<[e |-> "create return", answer |-> answer,
                        err |-> outcome.err, id |-> outcome.id]>>
       IN  /\ numericProcessID' = [numericProcessID EXCEPT ![r] = outcome.id]
           /\ IF outcome.err # ""
              THEN AfterCreateError(r, outcome.err, events)
              ELSE AfterCreate(r, outcome.id, events)
    /\ UNCHANGED <<file, ProcessTrackingURL, request, selectedDefinition, listResponse, startup>>

\* ProgressReturn with the update sent a second time when the first attempt
\* was not answered 200.
ProgressReturnRetries(r, ok) ==
    /\ pc[r] = "progress update"
    /\ IF ~ok /\ log[r][Len(log[r]) - 1].e # "update return"
       THEN /\ log' = [log EXCEPT ![r] = @ \o
                  <<[e |-> "update return", ok |-> ok], log[r][Len(log[r])]>>]
            /\ UNCHANGED <<pc, pending, response>>
       ELSE CallGetTargetPod(r, <<[e |-> "update return", ok |-> ok]>>)
    /\ UNCHANGED <<file, ProcessTrackingURL, request, selectedDefinition,
                   numericProcessID, listResponse, startup>>

\* The POST of the PROGRESS update returns (answered 200, answered otherwise or
\* not at all: the handler only logs the difference) and getTargetPod is called.
ProgressReturn(r, ok) ==
    /\ pc[r] = "progress update"
    /\ CallGetTargetPod(r, <<[e |-> "update return", ok |-> ok]>>)
    /\ UNCHANGED <<file, ProcessTrackingURL, request, selectedDefinition,
                   numericProcessID, listResponse, startup>>

\* The lengths of the two errors of getTargetPod with the namespace and the
\* selector of the model, the first one without the stderr text it ends with.
GetPodErrorLength == 91
NoPodErrorLength == 75

\* getTargetPod, from what kubectl get pods ended with: the error ("" for
\* none), its length, and the name of the pod.
getTargetPod(answer) ==
    IF answer.err
    THEN [err |-> "failed to get pod", errLen |-> GetPodErrorLength + answer.stderrLen,
          podName |-> <<>>]
    ELSE IF answer.out = <<>>
    THEN [err |-> "no pod found matching label selector", errLen |-> NoPodErrorLength,
          podName |-> <<>>]
    ELSE [err |-> "", errLen |-> 0, podName |-> answer.out]

\* After getTargetPod found a pod: the parameters are bound and the kubectl
\* exec line is started, or the request ends at the parameter that fails.
BindAndExecute(r, targetPod, events) ==
    LET definition == selectedDefinition[r]
        id == numericProcessID[r]
        bound == BindLoop(definition.parameters, request[r].TaskData, <<>>)
        fullCommand == FullCommand(bound.envVars, definition.command)
    IN  IF bound.err = "missing"
        THEN UpdateAndRespond(r, id, FAILED,
                 Message("Required parameter missing", Untruncated(Len(bound.parameter))),
                 Response(400, [error |-> MissingParameterText,
                                parameter |-> bound.parameter]),
                 events)
        ELSE IF bound.err = "internal"
        THEN Respond(r, Response(500, [error |-> "Internal server error processing parameter names",
                                       trackingId |-> request[r].TrackingID]),
                     events)
        ELSE /\ pc' = [pc EXCEPT ![r] = "exec"]
             /\ log' = [log EXCEPT ![r] = @ \o events \o
                   <<[e |-> "exec", targetPod |-> targetPod, fullCommand |-> fullCommand,
                      execCmd |-> ExecCmd(Namespace, targetPod, fullCommand)]>>]
             /\ UNCHANGED <<pending, response>>

\* kubectl get pods returns.
GetPodReturn(r, answer) ==
    /\ pc[r] = "get pod"
    /\ LET found == getTargetPod(answer)
           events == <<[e |-> "get pod return", err |-> found.err,
                        errLen |-> found.errLen]>>
       IN  IF found.err # ""
           THEN UpdateAndRespond(r, numericProcessID[r], FAILED,
                    Message("Failed to find target pod", Untruncated(found.errLen)),
                    Response(500, [error |-> "Failed to find target pod", detail |-> found.err]),
                    events)
           ELSE BindAndExecute(r, found.podName, events)
    /\ UNCHANGED <<file, ProcessTrackingURL, request, selectedDefinition,
                   numericProcessID, listResponse, startup>>

\* The kubectl line of a request in "exec".
RunningExecCmd(r) == log[r][Len(log[r])].execCmd

\* ExecReturn with a body on success that reports the script, the tracking id
\* of the request and the output.
ExecReturnReportsOutput(r, answer) ==
    /\ pc[r] = "exec"
    /\ ShellRead(RunningExecCmd(r)).ok \/ answer.err
    /\ LET definition == selectedDefinition[r]
           events == <<[e |-> "exec return", failed |-> answer.err, outLen |-> answer.outLen]>>
       IN  IF answer.err
           THEN UpdateAndRespond(r, numericProcessID[r], FAILED,
                    Message("Execution error", Truncated(answer.outLen)),
                    Response(500, [taskName |-> definition.name, script_id |-> definition.id,
                                   error |-> "Execution error", outputLen |-> answer.outLen]),
                    events)
           ELSE UpdateAndRespond(r, numericProcessID[r], SUCCESSFUL,
                    Message("", Truncated(answer.outLen)),
                    Response(200, [script_id |-> definition.id,
                                   trackingId |-> request[r].TrackingID,
                                   outputLen |-> answer.outLen]),
                    events)
    /\ UNCHANGED <<file, ProcessTrackingURL, request, selectedDefinition,
                   numericProcessID, listResponse, startup>>

\* ExecReturn with the truncated output in the response to a failed command.
ExecReturnTruncatesResponse(r, answer) ==
    /\ pc[r] = "exec"
    /\ ShellRead(RunningExecCmd(r)).ok \/ answer.err
    /\ LET definition == selectedDefinition[r]
           events == <<[e |-> "exec return", failed |-> answer.err, outLen |-> answer.outLen]>>
       IN  IF answer.err
           THEN UpdateAndRespond(r, numericProcessID[r], FAILED,
                    Message("Execution error", Truncated(answer.outLen)),
                    Response(500, [taskName |-> definition.name, script_id |-> definition.id,
                                   error |-> "Execution error",
                                   outputLen |-> Truncated(answer.outLen).len]),
                    events)
           ELSE UpdateAndRespond(r, numericProcessID[r], SUCCESSFUL,
                    Message("", Truncated(answer.outLen)),
                    Response(200, <<>>),
                    events)
    /\ UNCHANGED <<file, ProcessTrackingURL, request, selectedDefinition,
                   numericProcessID, listResponse, startup>>

\* kubectl exec returns (cmd.CombinedOutput).  A line the local sh cannot
\* parse never ends in success.
ExecReturn(r, answer) ==
    /\ pc[r] = "exec"
    /\ ShellRead(RunningExecCmd(r)).ok \/ answer.err
    /\ LET definition == selectedDefinition[r]
           events == <<[e |-> "exec return", failed |-> answer.err, outLen |-> answer.outLen]>>
       IN  IF answer.err
           THEN UpdateAndRespond(r, numericProcessID[r], FAILED,
                    Message("Execution error", Truncated(answer.outLen)),
                    Response(500, [taskName |-> definition.name, script_id |-> definition.id,
                                   error |-> "Execution error", outputLen |-> answer.outLen]),
                    events)
           ELSE UpdateAndRespond(r, numericProcessID[r], SUCCESSFUL,
                    Message("", Truncated(answer.outLen)),
                    Response(200, <<>>),
                    events)
    /\ UNCHANGED <<file, ProcessTrackingURL, request, selectedDefinition,
                   numericProcessID, listResponse, startup>>

\* TerminalReturn with an update that was not answered 200 reported to the
\* caller.
TerminalReturnSurfacesFailure(r, ok) ==
    /\ pc[r] = "terminal update"
    /\ Respond(r, IF ok THEN pending[r]
                  ELSE Response(500, [error |-> "Failed to update process tracking"]),
               <<[e |-> "update return", ok |-> ok]>>)
    /\ UNCHANGED <<file, ProcessTrackingURL, request, selectedDefinition,
                   numericProcessID, listResponse, startup>>

\* The POST of the last update returns and the response is written.
TerminalReturn(r, ok) ==
    /\ pc[r] = "terminal update"
    /\ Respond(r, pending[r], <<[e |-> "update return", ok |-> ok]>>)
    /\ UNCHANGED <<file, ProcessTrackingURL, request, selectedDefinition,
                   numericProcessID, listResponse, startup>>

\* ------------------------------------------------------------ listScripts

\* ScriptResponse with the command of the definition carried along.
ScriptResponseWithCommand(definition) ==
    [name |-> definition.name, parameters |-> definition.parameters,
     command |-> definition.command]

\* One entry of the response: ScriptResponse.
ScriptResponse(definition) ==
    [name |-> definition.name, parameters |-> definition.parameters]

\* The response of GET /v1/options for a content of the file.
ListScriptsResponse(f) ==
    LET loaded == loadScriptDefinitions(f)
    IN  IF loaded.err # "" THEN [code |-> 500, body |-> <<>>, headers |-> <<>>]
        ELSE [code |-> 200,
              body |-> [i \in DOMAIN loaded.definitions |->
                            ScriptResponse(loaded.definitions[i])],
              headers |-> <<>>]

listScripts ==
    /\ server = "serving"
    /\ listResponse' = ListScriptsResponse(file)
    /\ UNCHANGED <<file, ProcessTrackingURL, pc, request, selectedDefinition,
                   numericProcessID, pending, response, log, startup>>

\* ---------------------------------------------------------- specification

\* One execute request at a time is followed from its arrival to its
\* response, with every body, file content and answer of the collaborators.
Next ==
    \/ \E body \in Requests : Receive("r1", body)
    \/ \E r \in Reqs, answer \in CreateAnswers : CreateReturn(r, answer)
    \/ \E r \in Reqs, ok \in BOOLEAN : ProgressReturn(r, ok)
    \/ \E r \in Reqs, answer \in PodAnswers : GetPodReturn(r, answer)
    \/ \E r \in Reqs, answer \in ExecAnswers : ExecReturn(r, answer)
    \/ \E r \in Reqs, ok \in BOOLEAN : TerminalReturn(r, ok)
    \/ listScripts

Spec == Init /\ [][Next]_vars

\* ------------------------------------- notifyProcessTrackingUpdate on its own

\* The number of calls of notifyProcessTrackingUpdate followed per behaviour.
MaxCalls == 1

\* The statuses, levels and payloads the function is called with: the three
\* statuses of executeScript, FAILED in other letter cases, other text.
UpdateStatuses ==
    { FAILED, SUCCESSFUL, PROGRESS,
      <<"f","a","i","l","e","d">>, <<"F","a","i","l","e","d">>,
      <<"C","O","M","P","L","E","T","E","D">>, <<>> }

UpdateLevels == {"", "INFO", "ERROR"}

UpdatePayloads ==
    [Status : UpdateStatuses,
     Message : {Message("m", NoOutput),
                Message("", Truncated(maxProcessTrackingMessageLength + MaxExcess))},
     MessageLevel : UpdateLevels]

UpdateCalls(r) == Len(SelectSeq(log[r], LAMBDA event : event.e = "update call"))

\* One call of notifyProcessTrackingUpdate with any identifier and payload.
UpdateCall(r, id, payload) ==
    /\ UpdateCalls(r) < MaxCalls
    /\ log' = [log EXCEPT ![r] = @ \o
           <<[e |-> "update call", id |-> id, payload |-> payload]>> \o
           notifyProcessTrackingUpdate(id, payload)]
    /\ UNCHANGED <<file, ProcessTrackingURL, pc, request, selectedDefinition,
                   numericProcessID, pending, response, listResponse, startup>>

UpdateInit ==
    /\ Init
    /\ file = JSONFile(MainEntries)

UpdateNext ==
    \E id \in ProcessIDs, payload \in UpdatePayloads : UpdateCall("r1", id, payload)

UpdateSpec == UpdateInit /\ [][UpdateNext]_vars

\* ------------------------------------------------ the names of parameters

\* The names the functions on names are called with: every text of up to
\* MaxNameLen characters out of letters, a digit, the underscore and two
\* characters that no environment name may hold.
MaxNameLen == 3
NameChars == {"a", "Z", "7", "_", SP, "-"}
Names == UNION {[1 .. k -> NameChars] : k \in 0 .. MaxNameLen}

\* One parameter with the name is declared and given a value: what
\* sanitizeEnvVarName makes of the name, once and twice, whether
\* isValidEnvVarName accepts it, and how the loop over the parameters ends.
SanitizeCall(r, name) ==
    /\ log[r] = <<>>
    /\ log' = [log EXCEPT ![r] =
           <<[e |-> "sanitize",
              name |-> name,
              envVarName |-> sanitizeEnvVarName(name),
              again |-> sanitizeEnvVarName(sanitizeEnvVarName(name)),
              valid |-> isValidEnvVarName(sanitizeEnvVarName(name)),
              bound |-> BindLoop(<<Param(name, "string", FALSE)>>,
                                 name :> VString(<<"v">>), <<>>)]>>]
    /\ UNCHANGED <<file, ProcessTrackingURL, pc, request, selectedDefinition,
                   numericProcessID, pending, response, listResponse, startup>>

SanitizeNext == \E name \in Names : SanitizeCall("r1", name)

SanitizeSpec == UpdateInit /\ [][SanitizeNext]_vars

\* The service with the catalog of the model and the tracking URL set.
ConfiguredInit == UpdateInit /\ ProcessTrackingURL # ""

\* ------------------------------------------------- two declared parameters

\* The longest name of the two parameters of a script that are bound
\* together.
MaxPairNameLen == 2

\* The names a catalog entry can declare, out of a letter, a digit and two
\* characters that no environment name may hold: the load rejects the empty
\* one.
PairNameChars == {"a", "7", SP, "-"}
PairNames == UNION {[1 .. k -> PairNameChars] : k \in 1 .. MaxPairNameLen}

\* A script that declares two parameters with different names is loaded from
\* the file and bound to a taskData that holds both: whether the load accepts
\* it, and how the loop over the parameters ends.
BindPairCall(r, first, second) ==
    /\ log[r] = <<>>
    /\ first # second
    /\ LET parameters == <<Param(first, "string", FALSE), Param(second, "string", TRUE)>>
           entry == [EntrySleep EXCEPT !.parameters = parameters]
           taskData == (first :> VString(<<"v">>)) @@ (second :> VString(<<"w">>))
       IN  log' = [log EXCEPT ![r] =
               <<[e |-> "bind pair", first |-> first, second |-> second,
                  loadErr |-> loadScriptDefinitions(JSONFile(<<entry>>)).err,
                  bound |-> BindLoop(parameters, taskData, <<>>)]>>]
    /\ UNCHANGED <<file, ProcessTrackingURL, pc, request, selectedDefinition,
                   numericProcessID, pending, response, listResponse, startup>>

BindPairNext == \E first, second \in PairNames : BindPairCall("r1", first, second)

BindPairSpec == ConfiguredInit /\ [][BindPairNext]_vars

\* ---------------------------------------------- generated tracking identifiers

\* The readings of the clock (time.Now().UnixNano()) and the number of
\* requests each handler goroutine is followed for.
MaxClock == 2
MaxGenerations == 2

\* The start of executeScript for a request whose body holds the tracking
\* identifier t: an empty one is replaced by the reading of the clock in
\* decimal.  The clock never goes back, and two readings can be the same:
\* the handlers run at the same time and the clock has a resolution.
TrackingIDStep(r, t, now) ==
    /\ Len(log[r]) < MaxGenerations
    /\ \A q \in Reqs : \A i \in DOMAIN log[q] : log[q][i].now <= now
    /\ log' = [log EXCEPT ![r] =
           Append(@, [e |-> "tracking id", now |-> now, generated |-> t = "",
                      bodyTrackingID |-> IF t = "" THEN FormatInt(now) ELSE <<t>>])]
    /\ UNCHANGED <<file, ProcessTrackingURL, pc, request, selectedDefinition,
                   numericProcessID, pending, response, listResponse, startup>>

ClockNext ==
    \E r \in Reqs, t \in {"", "t1"}, now \in 0 .. MaxClock : TrackingIDStep(r, t, now)

ClockSpec == ConfiguredInit /\ [][ClockNext]_vars

\* --------------------------------------------------- the ids of the catalog

\* The longest name of an entry whose id is followed through the load.
MaxScriptNameLen == 2

\* The names of the entries, out of an upper-case letter, the space and the
\* hyphen, and their ids: none, or one with an upper-case letter and a space.
ScriptNameChars == {"A", SP, "-"}
ScriptNames == UNION {[1 .. k -> ScriptNameChars] : k \in 1 .. MaxScriptNameLen}
ScriptIDs == {<<>>, <<"I", SP, "d">>}

\* A file with two entries is loaded.
LoadCall(r, firstID, firstName, secondID, secondName) ==
    /\ log[r] = <<>>
    /\ LET entries == <<[EntryWhere EXCEPT !.id = firstID, !.name = firstName],
                        [EntrySleep EXCEPT !.id = secondID, !.name = secondName]>>
       IN  log' = [log EXCEPT ![r] =
               <<[e |-> "load pair", entries |-> entries,
                  loaded |-> loadScriptDefinitions(JSONFile(entries))]>>]
    /\ UNCHANGED <<file, ProcessTrackingURL, pc, request, selectedDefinition,
                   numericProcessID, pending, response, listResponse, startup>>

LoadNext ==
    \E firstID, secondID \in ScriptIDs, firstName, secondName \in ScriptNames :
        LoadCall("r1", firstID, firstName, secondID, secondName)

LoadSpec == ConfiguredInit /\ [][LoadNext]_vars

\* ------------------------------------------------------------------- main

\* KubernetesClient with the client also set up anew while the service is
\* serving, a failure ending the process as it does at startup.
KubernetesClientWhileServing(ok) ==
    /\ server \in {"start", "serving"}
    /\ server' = IF ~ok THEN "exited" ELSE IF server = "start" THEN "checking" ELSE server
    /\ UNCHANGED <<file, ProcessTrackingURL, pc, request, selectedDefinition,
                   numericProcessID, pending, response, log, listResponse,
                   rbac, reviews>>

\* The Kubernetes client is set up: the in-cluster configuration is read and
\* the clientset is made, or main ends with log.Fatalf.
KubernetesClient(ok) ==
    /\ server = "start"
    /\ server' = IF ok THEN "checking" ELSE "exited"
    /\ UNCHANGED <<file, ProcessTrackingURL, pc, request, selectedDefinition,
                   numericProcessID, pending, response, log, listResponse,
                   rbac, reviews>>

\* One turn of the loop of checkPermissions: the access review of the next
\* required permission is created. The call fails, or the cluster answers
\* from what the service account is allowed to do. A failed call and a
\* denial end checkPermissions with an error, and main with log.Fatalf; after
\* the last permission is allowed, checkPermissions returns nil.
Review(callOK) ==
    /\ server = "checking"
    /\ LET i == Len(reviews) + 1
           permission == requiredPermissions[i]
           result == IF ~callOK THEN "error"
                     ELSE IF permission \in rbac THEN "allowed" ELSE "denied"
       IN  /\ reviews' = Append(reviews, [permission |-> permission, result |-> result])
           /\ server' = IF result # "allowed" THEN "exited"
                        ELSE IF i = Len(requiredPermissions) THEN "checked"
                        ELSE "checking"
    /\ UNCHANGED <<file, ProcessTrackingURL, pc, request, selectedDefinition,
                   numericProcessID, pending, response, log, listResponse, rbac>>

\* The routes are registered and r.Run listens on the port, or fails and main
\* ends with log.Fatalf.
Run(ok) ==
    /\ server = "checked"
    /\ server' = IF ok THEN "serving" ELSE "exited"
    /\ UNCHANGED <<file, ProcessTrackingURL, pc, request, selectedDefinition,
                   numericProcessID, pending, response, log, listResponse,
                   rbac, reviews>>

\* What kubectl get pods with a label selector can end with for a service
\* account: the query lists pods, and fails when listing is not allowed.
PodAnswersUnder(grants) ==
    IF ListPods \in grants THEN PodAnswers ELSE {answer \in PodAnswers : answer.err}

\* The process starts with any subset of the three rules granted, and no
\* request is in progress.
StartupInit ==
    /\ file = JSONFile(MainEntries)
    /\ ProcessTrackingURL \in TrackingURLs
    /\ pc = [r \in Reqs |-> "idle"]
    /\ request = [r \in Reqs |-> NoRequest]
    /\ selectedDefinition = [r \in Reqs |-> NoDefinition]
    /\ numericProcessID = [r \in Reqs |-> 0]
    /\ pending = [r \in Reqs |-> NoResponse]
    /\ response = [r \in Reqs |-> NoResponse]
    /\ log = [r \in Reqs |-> <<>>]
    /\ listResponse = NoResponse
    /\ server = "start"
    /\ rbac \in SUBSET Grants
    /\ reviews = <<>>

StartupNext ==
    \/ \E ok \in BOOLEAN : KubernetesClient(ok)
    \/ \E callOK \in BOOLEAN : Review(callOK)
    \/ \E ok \in BOOLEAN : Run(ok)
    \/ \E body \in Requests : Receive("r1", body)
    \/ \E r \in Reqs, answer \in CreateAnswers : CreateReturn(r, answer)
    \/ \E r \in Reqs, ok \in BOOLEAN : ProgressReturn(r, ok)
    \/ \E r \in Reqs, answer \in PodAnswersUnder(rbac) : GetPodReturn(r, answer)
    \/ \E r \in Reqs, answer \in ExecAnswers : ExecReturn(r, answer)
    \/ \E r \in Reqs, ok \in BOOLEAN : TerminalReturn(r, ok)
    \/ listScripts

StartupSpec == StartupInit /\ [][StartupNext]_vars

\* ------------------------------------------------- two requests at a time

\* The largest identifier the tracking service hands out when two requests
\* are followed.
MaxConcurrentID == 2

\* Two requests for the same tracked script, with and without a tracking
\* identifier of the caller.
ConcurrentRequests ==
    { body \in Requests :
        /\ body.bodyOK
        /\ body.TaskData = TaskData(VString(NameSleep), VNumber(5), Absent) }

\* The tracking service fails, or creates a record with an identifier.
ConcurrentCreateAnswers ==
    { [kind |-> "transport error", processid |-> <<>>] }
    \cup { [kind |-> "status 201", processid |-> FormatInt(n)] : n \in 1 .. MaxConcurrentID }

\* kubectl get pods and kubectl exec fail or succeed, without output.
ConcurrentPodAnswers == {answer \in PodAnswers : answer.stderrLen = 0 /\ (answer.err \/ answer.out # <<>>)}
ConcurrentExecAnswers == {answer \in ExecAnswers : answer.outLen = 0}

\* The service is serving with tracking configured.
ConcurrentInit ==
    /\ Init
    /\ file = JSONFile(MainEntries)
    /\ ProcessTrackingURL # ""

\* One step of the handler of a request: gin runs each handler in a goroutine
\* of its own, and the steps of the two interleave in every order.
HandlerStep(r) ==
    \/ \E body \in ConcurrentRequests : Receive(r, body)
    \/ \E answer \in ConcurrentCreateAnswers : CreateReturn(r, answer)
    \/ \E ok \in BOOLEAN : ProgressReturn(r, ok)
    \/ \E answer \in ConcurrentPodAnswers : GetPodReturn(r, answer)
    \/ \E answer \in ConcurrentExecAnswers : ExecReturn(r, answer)
    \/ \E ok \in BOOLEAN : TerminalReturn(r, ok)

ConcurrentNext == \E r \in Reqs : HandlerStep(r)

ConcurrentSpec == ConcurrentInit /\ [][ConcurrentNext]_vars

\* ------------------------------------------- the file edited between requests

\* The contents the file is given by edits: the catalog, the catalog with
\* other commands, other entries, no entry, and a file that cannot be read.
ReloadFiles ==
    { JSONFile(MainEntries),
      JSONFile(WithCommands(MainEntries, <<"secret", SP, "--token", SP, "t0p">>)),
      JSONFile(<<EntryWhere, EntryWhereAgain>>),
      JSONFile(<<>>),
      UnreadableFile }

\* The requests followed: the first script of the catalog.
ReloadRequests ==
    { body \in Requests :
        /\ body.bodyOK /\ body.TrackingID = "t1"
        /\ body.TaskData = TaskData(VString(NameWhere), Absent, Absent) }

\* The file at ScriptsPath is given another content from outside the
\* service (the mounted ConfigMap is updated).
EditFile(f) ==
    /\ f # file
    /\ file' = f
    /\ UNCHANGED <<ProcessTrackingURL, pc, request, selectedDefinition,
                   numericProcessID, pending, response, log, listResponse, startup>>

ReloadInit ==
    /\ Init
    /\ file \in ReloadFiles
    /\ ProcessTrackingURL # ""

\* Execute and list requests with the file edited at any moment; the
\* collaborators answer without error, the command fails or succeeds.
ReloadNext ==
    \/ \E f \in ReloadFiles : EditFile(f)
    \/ \E r \in Reqs, body \in ReloadRequests : Receive(r, body)
    \/ \E r \in Reqs : CreateReturn(r, [kind |-> "status 201", processid |-> FormatInt(MaxProcessID)])
    \/ \E r \in Reqs : ProgressReturn(r, TRUE)
    \/ \E r \in Reqs : GetPodReturn(r, [err |-> FALSE, out |-> <<"pod-X">>, stderrLen |-> 0])
    \/ \E r \in Reqs, answer \in ConcurrentExecAnswers : ExecReturn(r, answer)
    \/ \E r \in Reqs : TerminalReturn(r, TRUE)
    \/ listScripts

ReloadSpec == ReloadInit /\ [][ReloadNext]_vars

\* --------------------------------------------- outbound calls that return

\* The HTTP calls to the tracking service and kubectl get pods return.
CallReturns(r) ==
    \/ \E answer \in CreateAnswers : CreateReturn(r, answer)
    \/ \E ok \in BOOLEAN : ProgressReturn(r, ok)
    \/ \E answer \in PodAnswers : GetPodReturn(r, answer)
    \/ \E ok \in BOOLEAN : TerminalReturn(r, ok)

ReturningNext ==
    \/ \E body \in ConcurrentRequests : Receive("r1", body)
    \/ CallReturns("r1")
    \/ \E answer \in ExecAnswers : ExecReturn("r1", answer)

\* A request whose calls to the tracking service and to kubectl get pods
\* always return; the kubectl exec line returns or runs for ever
\* (cmd.CombinedOutput waits for the command without a deadline).
ReturningSpec ==
    /\ ConcurrentInit
    /\ [][ReturningNext]_vars
    /\ WF_vars(CallReturns("r1"))

\* ------------------------------------------------- reading the log of a request

Indices(r, kind) == {i \in DOMAIN log[r] : log[r][i].e = kind}
Happened(r, kind) == Indices(r, kind) # {}

\* The error message of a response ("" when the body has none).
ErrorOf(resp) == IF "error" \in DOMAIN resp.body THEN resp.body.error ELSE ""

\* The returns of notifyProcessTrackingCreate with an error, and without.
CreateErrors(r) == {i \in Indices(r, "create return") : log[r][i].err # ""}
Creations(r) == {i \in Indices(r, "create return") : log[r][i].err = ""}

\* The update requests with a terminal status.
TerminalUpdates(r) ==
    {i \in Indices(r, "update post") : log[r][i].status \in {SUCCESSFUL, FAILED}}

\* The request selected a script and its taskData lacks a parameter that the
\* script declares as required.
OmitsRequired(r) ==
    /\ selectedDefinition[r] # NoDefinition
    /\ \E j \in DOMAIN selectedDefinition[r].parameters :
          /\ ~selectedDefinition[r].parameters[j].optional
          /\ selectedDefinition[r].parameters[j].name \notin DOMAIN request[r].TaskData

MissingParameterError == MissingParameterText
TrackingInitError == TrackingInitErrorText

\* The response of a request, written or waiting for the last update to return.
Outcome(r) == IF pc[r] = "terminal update" THEN pending[r] ELSE response[r]

\* ----------------------------------------------------------------- claims

C2_NoUpdateAfterCreateError ==
    \A r \in Reqs : \A i \in CreateErrors(r) :
        \A j \in Indices(r, "update post") : j < i

C2_Witness ==
    \E r \in Reqs :
        /\ pc[r] = "done"
        /\ \E i \in CreateErrors(r) : log[r][i].err = "create request failed with status"

LocalRead(ev) == ShellRead(ev.execCmd)

RemoteScript(ev) ==
    LET local == LocalRead(ev)
        at == Len(ExecWords(Namespace, ev.targetPod)) + 1
    IN  IF local.ok /\ local.cmds # <<>> /\ Len(local.cmds[1]) >= at
        THEN [reached |-> TRUE, text |-> local.cmds[1][at]]
        ELSE [reached |-> FALSE, text |-> <<>>]

\* The environment the remote bash gives the script: the assignments that
\* lead its first command, as bash reads them.
RemoteEnvironment(ev) ==
    LET script == RemoteScript(ev)
        remote == ShellRead(script.text)
    IN  IF script.reached /\ remote.ok /\ remote.cmds # <<>>
        THEN LeadingAssignments(remote.cmds[1])
        ELSE <<>>

\* The declared parameters of the selected script that the payload has, each
\* with its environment name and the text of its value.
RECURSIVE BoundValues(_, _)
BoundValues(parameters, taskData) ==
    IF parameters = <<>> THEN <<>>
    ELSE (IF Head(parameters).name \in DOMAIN taskData
          THEN <<[name |-> sanitizeEnvVarName(Head(parameters).name),
                  value |-> Stringify(taskData[Head(parameters).name])]>>
          ELSE <<>>) \o BoundValues(Tail(parameters), taskData)

\* C5: for every payload value, the text the remote shell assigns to the
\* environment variable is the stringified payload value, after the kubectl
\* line went through the local sh -c and the remote bash -c.
C5_AssignedValueIsPayloadValue ==
    \A r \in Reqs : \A i \in Indices(r, "exec") :
        RemoteEnvironment(log[r][i]) =
            BoundValues(selectedDefinition[r].parameters, request[r].TaskData)

\* C6: the local shell runs one command, kubectl, without substituting
\* anything itself, and the full command is the one argument after -c.
C6_FullCommandIsOneArgument ==
    \A r \in Reqs : \A i \in Indices(r, "exec") :
        LET local == LocalRead(log[r][i]) IN
        /\ local.ok
        /\ local.substitutions = 0
        /\ local.cmds =
              <<ExecWords(Namespace, log[r][i].targetPod) \o <<log[r][i].fullCommand>>>>

\* The values of the model that hold none of $, single quote and backquote.
PlainValue(value) ==
    value.tag # "string" \/ Range(value.text) \cap {DL, SQ, BQ, NL} = {}

\* A check of the reading of the shells: for the plain values the round trip
\* holds and the full command is one argument.
PlainValuesPass ==
    \A r \in Reqs : \A i \in Indices(r, "exec") :
        (\A k \in DOMAIN request[r].TaskData : PlainValue(request[r].TaskData[k])) =>
            /\ RemoteEnvironment(log[r][i]) =
                  BoundValues(selectedDefinition[r].parameters, request[r].TaskData)
            /\ LocalRead(log[r][i]).cmds =
                  <<ExecWords(Namespace, log[r][i].targetPod) \o <<log[r][i].fullCommand>>>>

\* Two contents of the file that load and differ at most in the command text
\* of their entries.
SameButCommands(f, g) ==
    /\ loadScriptDefinitions(f).err = ""
    /\ loadScriptDefinitions(g).err = ""
    /\ Len(f.entries) = Len(g.entries)
    /\ \A i \in DOMAIN f.entries :
          [f.entries[i] EXCEPT !.command = <<>>] = [g.entries[i] EXCEPT !.command = <<>>]

C8_CreateOnceBeforeExec ==
    \A r \in Reqs :
        /\ Cardinality(Indices(r, "create call")) <= 1
        /\ Cardinality(Indices(r, "create post")) <= 1
        /\ \A x \in Indices(r, "exec") : \A p \in Indices(r, "create post") :
              \E c \in Creations(r) :
                  /\ p < c /\ c < x
                  /\ log[r][c].id = numericProcessID[r]

C8_Witness ==
    \E r \in Reqs :
        /\ Happened(r, "exec")
        /\ \E c \in Creations(r) : log[r][c].id > 0

\* C9, as stated, for the identifiers above zero (the ones every update is
\* sent for): a request whose creation returned such an identifier sends
\* exactly one terminal update, and sends it after the remote execution has
\* returned.
C9_OneTerminalUpdateAfterExec ==
    \A r \in Reqs : \A c \in Creations(r) :
        (log[r][c].id > 0 /\ pc[r] = "done") =>
            /\ Cardinality(TerminalUpdates(r)) = 1
            /\ \A t \in TerminalUpdates(r) : \E x \in Indices(r, "exec return") : x < t

\* C9, amended: a request whose creation returned an identifier above zero
\* sends exactly one terminal update, for that identifier and before its
\* response: after the remote execution has returned when the command was
\* run, and as FAILED, with no remote execution at all, when the target is
\* not found or a required parameter is missing.  For an identifier of zero
\* or below no terminal update is sent.
C9_OneTerminalUpdateBeforeResponse ==
    \A r \in Reqs : \A c \in Creations(r) :
        /\ \A t \in TerminalUpdates(r) :
              /\ log[r][t].id = log[r][c].id
              /\ c < t
              /\ \A x \in Indices(r, "exec") : \E y \in Indices(r, "exec return") : y < t
              /\ ~Happened(r, "exec") => log[r][t].status = FAILED
              /\ \A p \in Indices(r, "response") : t < p
        /\ log[r][c].id <= 0 => TerminalUpdates(r) = {}
        /\ (log[r][c].id > 0 /\ pc[r] = "done") => Cardinality(TerminalUpdates(r)) = 1
        /\ Cardinality(TerminalUpdates(r)) <= 1

C9_Witness ==
    \E r \in Reqs : \E c \in Creations(r) :
        /\ pc[r] = "done"
        /\ log[r][c].id > 0
        /\ ~Happened(r, "exec")
        /\ \E t \in TerminalUpdates(r) : log[r][t].status = FAILED

\* C10: when the creation returned identifier N and the remote command
\* failed, exactly one update with status FAILED is made for N, before the
\* error response.
C10_FailedUpdateForEveryIdentifier ==
    \A r \in Reqs : \A c \in Creations(r) :
        (pc[r] = "done" /\ \E x \in Indices(r, "exec return") : log[r][x].failed) =>
            LET failedUpdates ==
                    {u \in Indices(r, "update post") :
                        log[r][u].status = FAILED /\ log[r][u].id = log[r][c].id}
            IN  /\ Cardinality(failedUpdates) = 1
                /\ \A u \in failedUpdates : \A p \in Indices(r, "response") : u < p

\* The places in the declaration list of the required parameters that the
\* taskData of the request lacks.
MissingRequired(r) ==
    {j \in DOMAIN selectedDefinition[r].parameters :
        /\ ~selectedDefinition[r].parameters[j].optional
        /\ selectedDefinition[r].parameters[j].name \notin DOMAIN request[r].TaskData}

\* The handler of the request got to the loop over the parameters.
ReachedBinding(r) == \E g \in Indices(r, "get pod return") : log[r][g].err = ""

\* C11, as stated: every request that omits a required declared parameter
\* runs no remote command and ends with the validation failure (400, required
\* parameter missing).
C11_OmissionEndsInValidationFailure ==
    \A r \in Reqs : (OmitsRequired(r) /\ pc[r] = "done") =>
        /\ ~Happened(r, "exec")
        /\ response[r].code = 400
        /\ ErrorOf(response[r]) = MissingParameterError

\* C11, amended: a request that omits a required declared parameter runs no
\* remote command wherever the parameter is in the declaration list, and the
\* loop over the parameters ends at the first such parameter with the
\* validation failure (400).  The request ends with that failure exactly when
\* its handler gets to the loop; it ends with a 500 before it when the
\* creation of the tracking record fails or no target pod is found.
C11_OmissionNeverExecutes ==
    \A r \in Reqs : OmitsRequired(r) =>
        /\ ~Happened(r, "exec")
        /\ (ReachedBinding(r) /\ pc[r] \in {"terminal update", "done"}) =>
              /\ Outcome(r).code = 400
              /\ ErrorOf(Outcome(r)) = MissingParameterError
              /\ \E j \in MissingRequired(r) :
                    /\ \A k \in MissingRequired(r) : j <= k
                    /\ Outcome(r).body.parameter = selectedDefinition[r].parameters[j].name
        /\ (~ReachedBinding(r) /\ pc[r] = "done") =>
              /\ response[r].code = 500
              /\ \/ CreateErrors(r) # {}
                 \/ \E g \in Indices(r, "get pod return") : log[r][g].err # ""

\* The missing parameter is the second of the list and the first one was
\* given a value.
C11_Witness ==
    \E r \in Reqs :
        /\ pc[r] = "done"
        /\ OmitsRequired(r)
        /\ MissingRequired(r) = {2}
        /\ selectedDefinition[r].parameters[1].name \in DOMAIN request[r].TaskData
        /\ response[r].code = 400
        /\ ~Happened(r, "exec")

\* C12: every update request of an execute request is sent for, and to the
\* path of, the identifier that the creation call of the same request
\* returned, and the identifier the handler holds stays that one from the
\* creation to the last update.
C12_UpdatesReuseCreatedIdentifier ==
    \A r \in Reqs :
        /\ \A u \in Indices(r, "update post") :
              \E c \in Creations(r) :
                  /\ c < u
                  /\ log[r][u].id = log[r][c].id
                  /\ ParseInt(log[r][u].path).ok
                  /\ ParseInt(log[r][u].path).n = log[r][c].id
                  /\ numericProcessID[r] = log[r][c].id
        /\ \A u, v \in Indices(r, "update post") : log[r][u].path = log[r][v].path

\* A request that sent the PROGRESS update and a terminal update.
C12_Witness ==
    \E r \in Reqs :
        /\ pc[r] = "done"
        /\ \E u, v \in Indices(r, "update post") :
              /\ u < v
              /\ log[r][u].status = PROGRESS
              /\ log[r][v].status \in {SUCCESSFUL, FAILED}
              /\ log[r][v].id = numericProcessID[r]

\* The answer to the creation POST gives no usable identifier, in the words
\* of C13: no answer, a status that is not a success status, or an identifier
\* that is absent or zero.
NoUsableIdentifier(answer) ==
    \/ answer.kind \in {"transport error", "status 500"}
    \/ answer.processid = <<>>
    \/ (ParseInt(answer.processid).ok /\ ParseInt(answer.processid).n = 0)

\* C13, as stated: notifyProcessTrackingCreate returns an error whenever the
\* answer gives no usable identifier.
C13_ErrorWheneverNoUsableIdentifier ==
    \A r \in Reqs : \A i \in Indices(r, "create return") :
        NoUsableIdentifier(log[r][i].answer) => log[r][i].err # ""

\* C13, amended: notifyProcessTrackingCreate returns an error exactly when no
\* request is sent (URL unset), no answer comes, the status is not 201, or the
\* processid header is missing or not a number.  A header of 0 is no error:
\* the call returns the identifier 0, as it returns any other number.
C13_ErrorUnlessCreatedWithNumber ==
    \A r \in Reqs : \A i \in Indices(r, "create return") :
        LET answer == log[r][i].answer
            numbered == /\ answer.kind = "status 201"
                        /\ answer.processid # <<>>
                        /\ ParseInt(answer.processid).ok
        IN  /\ log[r][i].err = "" <=> numbered
            /\ numbered => log[r][i].id = ParseInt(answer.processid).n
            /\ ~numbered => log[r][i].id = 0

\* The creation was answered 201 with the header processid: 0 and returned
\* without error.
C13_Witness ==
    \E r \in Reqs : \E i \in Indices(r, "create return") :
        /\ log[r][i].answer.kind = "status 201"
        /\ log[r][i].answer.processid = FormatInt(0)
        /\ log[r][i].err = ""
        /\ log[r][i].id = 0

\* C14: a call of notifyProcessTrackingUpdate with the tracking URL unset or
\* with the identifier zero sends no request and changes nothing else; any
\* other call sends its request.
C14_UpdateSkippedSendsNothing ==
    \A r \in Reqs :
        /\ \A i \in Indices(r, "update call") :
              LET skipped == ProcessTrackingURL = "" \/ log[r][i].id = 0
                  posted == i < Len(log[r]) /\ log[r][i + 1].e = "update post"
              IN  posted <=> ~skipped
        /\ \A p \in Indices(r, "update post") :
              ProcessTrackingURL # "" /\ log[r][p].id # 0
        /\ Happened(r, "update call") =>
              /\ pc[r] = "idle"
              /\ response[r] = NoResponse
              /\ pending[r] = NoResponse
              /\ numericProcessID[r] = 0

\* The function was called for the identifier 1 with the URL unset, and sent
\* nothing.
C14_Witness ==
    \E r \in Reqs : \E i \in Indices(r, "update call") :
        /\ ProcessTrackingURL = ""
        /\ log[r][i].id = 1
        /\ ~Happened(r, "update post")

\* The text spells FAILED, in capital or small letters.
SpellsFailed(status) ==
    /\ Len(status) = Len(FAILED)
    /\ \A i \in DOMAIN status : status[i] \in {FAILED[i], ToLowerChar(FAILED[i])}

\* The requests that calls of notifyProcessTrackingUpdate sent, each with the
\* payload of its call.
SentUpdates(r) ==
    {i \in Indices(r, "update call") :
        i < Len(log[r]) /\ log[r][i + 1].e = "update post"}

LongestAllowed == maxProcessTrackingMessageLength + MarkerLength

\* C16, as stated: every message sent in an update is at most the maximum
\* message length followed by the truncation marker, and carries the marker
\* when it is longer than the maximum.
C16_EveryMessageBounded ==
    \A r \in Reqs : \A p \in Indices(r, "update post") :
        /\ MessageLength(log[r][p].message) <= LongestAllowed
        /\ MessageLength(log[r][p].message) > maxProcessTrackingMessageLength
              => log[r][p].message.output.marker

\* C16, amended: only the output of the remote command is truncated, by
\* executeScript: to the maximum length, with the marker after it when it was
\* longer.  The SUCCESSFUL message is that truncated output and so is bounded;
\* the FAILED message after an execution is the error text and a separator
\* followed by the truncated output, and is longer than the bound when the
\* output is long; the FAILED messages for a target that was not found and for
\* a missing parameter carry the error of getTargetPod and the parameter name
\* whole; the PROGRESS message is a fixed text.
C16_OnlyOutputTruncated ==
    \A r \in Reqs : \A p \in Indices(r, "update post") :
        LET message == log[r][p].message
            status == log[r][p].status IN
        /\ \A x \in Indices(r, "exec return") : status # PROGRESS =>
              LET outLen == log[r][x].outLen IN
              /\ x < p
              /\ message.output.len =
                    (IF outLen > maxProcessTrackingMessageLength
                     THEN maxProcessTrackingMessageLength ELSE outLen)
              /\ message.output.marker <=> outLen > maxProcessTrackingMessageLength
              /\ status = SUCCESSFUL =>
                    /\ message.text = ""
                    /\ MessageLength(message) <= LongestAllowed
              /\ status = FAILED =>
                    MessageLength(message) =
                        ExecutionErrorLength + message.output.len
                            + (IF message.output.marker THEN MarkerLength ELSE 0)
        /\ status = PROGRESS => MessageLength(message) = StartingLength
        /\ (status = FAILED /\ ~Happened(r, "exec return")) =>
              /\ ~message.output.marker
              /\ \/ \E g \in Indices(r, "get pod return") :
                       /\ log[r][g].err # ""
                       /\ MessageLength(message) = FindPodFailedLength + log[r][g].errLen
                 \/ /\ ErrorOf(Outcome(r)) = MissingParameterError
                    /\ MessageLength(message) =
                           ParameterMissingLength + Len(Outcome(r).body.parameter)

\* A FAILED update after an execution whose output has exactly the maximum
\* length: the message is longer than the bound and has no marker.
C16_Witness ==
    \E r \in Reqs : \E p \in Indices(r, "update post") :
        /\ log[r][p].status = FAILED
        /\ \E x \in Indices(r, "exec return") :
              x < p /\ log[r][x].outLen = maxProcessTrackingMessageLength
        /\ MessageLength(log[r][p].message) > LongestAllowed
        /\ ~log[r][p].message.output.marker

\* The update requests of a request with a given status.
UpdatesWith(r, status) ==
    {i \in Indices(r, "update post") : log[r][i].status = status}

\* C17: within one execute request the target is queried at most once, the
\* creation is called (and its request sent) at most once, the remote command
\* is started at most once, and each update (the PROGRESS one, the terminal
\* one) is sent at most once, whatever the answers were.
C17_NoOutboundCallRepeated ==
    \A r \in Reqs :
        /\ Cardinality(Indices(r, "get pod")) <= 1
        /\ Cardinality(Indices(r, "create call")) <= 1
        /\ Cardinality(Indices(r, "create post")) <= 1
        /\ Cardinality(Indices(r, "exec")) <= 1
        /\ Cardinality(UpdatesWith(r, PROGRESS)) <= 1
        /\ Cardinality(UpdatesWith(r, SUCCESSFUL) \cup UpdatesWith(r, FAILED)) <= 1
        /\ Cardinality(Indices(r, "get pod return")) <= 1
        /\ Cardinality(Indices(r, "create return")) <= 1
        /\ Cardinality(Indices(r, "exec return")) <= 1
        /\ Cardinality(Indices(r, "update return")) <= Cardinality(Indices(r, "update post"))

\* A request whose remote command failed and whose two updates were not
\* answered 200: every call was made once.
C17_Witness ==
    \E r \in Reqs :
        /\ pc[r] = "done"
        /\ \E x \in Indices(r, "exec return") : log[r][x].failed
        /\ Cardinality(Indices(r, "update post")) = 2
        /\ \A u \in Indices(r, "update return") : ~log[r][u].ok
        /\ Cardinality(Indices(r, "update return")) = 2
        /\ Cardinality(Indices(r, "exec")) = 1
        /\ Cardinality(Indices(r, "get pod")) = 1
        /\ Cardinality(Indices(r, "create post")) = 1

\* The request got as far as naming a script: its body was bound and
\* taskData.name is a non-empty string.
NamesScript(r) ==
    /\ pc[r] # "idle"
    /\ request[r].bodyOK
    /\ KeyName \in DOMAIN request[r].TaskData
    /\ request[r].TaskData[KeyName].tag = "string"
    /\ request[r].TaskData[KeyName].text # <<>>

\* The calls a handler makes to the outside: the target query, the creation
\* and the updates of the tracking record, the remote command.
OutboundCalls(r) ==
    Indices(r, "get pod") \cup Indices(r, "create call") \cup Indices(r, "create post")
        \cup Indices(r, "update post") \cup Indices(r, "exec")

\* C18: when the definitions cannot be loaded (file unreadable, not JSON, or
\* with an invalid entry) the request fails (500), and when no definition has
\* the requested name it fails as not found (404); in both cases the handler
\* makes no outbound call.
C18_NoCallsWithoutScript ==
    \A r \in Reqs : NamesScript(r) =>
        LET loaded == loadScriptDefinitions(file)
            name == request[r].TaskData[KeyName].text
            unmatched == \A i \in DOMAIN loaded.definitions :
                             loaded.definitions[i].name # name
        IN  /\ loaded.err # "" =>
                  /\ pc[r] = "done"
                  /\ response[r].code = 500
                  /\ OutboundCalls(r) = {}
            /\ (loaded.err = "" /\ unmatched) =>
                  /\ pc[r] = "done"
                  /\ response[r].code = 404
                  /\ OutboundCalls(r) = {}

\* A request for a script that no definition of a loaded catalog names.
C18_Witness ==
    \E r \in Reqs :
        /\ NamesScript(r)
        /\ loadScriptDefinitions(file).err = ""
        /\ loadScriptDefinitions(file).definitions # <<>>
        /\ selectedDefinition[r] = NoDefinition
        /\ response[r].code = 404
        /\ OutboundCalls(r) = {}

\* A request that names a script while the file holds an invalid entry.
C18_InvalidCatalogReached ==
    \E r \in Reqs :
        /\ NamesScript(r)
        /\ file.state = "json"
        /\ loadScriptDefinitions(file).err # ""
        /\ response[r].code = 500

\* The file is a JSON list with an entry that lacks a name or a command, or
\* that declares a parameter without a name.
LacksRequiredField(f) ==
    /\ f.state = "json"
    /\ \E i \in DOMAIN f.entries :
          \/ f.entries[i].name = <<>>
          \/ f.entries[i].command = <<>>
          \/ \E j \in DOMAIN f.entries[i].parameters :
                f.entries[i].parameters[j].name = <<>>

\* C19: a file with an entry that lacks a name or a command, or with a
\* parameter that lacks a name, does not load and gives no definitions (the
\* listing is then the 500 with an empty list, and no request selects a
\* script).  When the file loads, there is one definition per entry, each
\* with a non-empty id, name and command, and each parameter with a non-empty
\* name and a non-empty type, which is "string" where the file had none.
C19_LoadAllOrNothing ==
    LET loaded == loadScriptDefinitions(file) IN
    /\ LacksRequiredField(file) =>
          /\ loaded.err # ""
          /\ loaded.definitions = <<>>
          /\ listResponse # NoResponse =>
                listResponse.code = 500 /\ listResponse.body = <<>>
          /\ \A r \in Reqs : selectedDefinition[r] = NoDefinition
    /\ loaded.err # "" => loaded.definitions = <<>>
    /\ loaded.err = "" =>
          /\ Len(loaded.definitions) = Len(file.entries)
          /\ \A i \in DOMAIN loaded.definitions :
                LET definition == loaded.definitions[i] IN
                /\ definition.id # <<>>
                /\ definition.name # <<>> /\ definition.name = file.entries[i].name
                /\ definition.command # <<>>
                /\ \A j \in DOMAIN definition.parameters :
                      /\ definition.parameters[j].name # <<>>
                      /\ definition.parameters[j].type # ""
                      /\ file.entries[i].parameters[j].type = "" =>
                            definition.parameters[j].type = "string"
          /\ \A r \in Reqs : selectedDefinition[r] # NoDefinition =>
                /\ selectedDefinition[r].id # <<>>
                /\ selectedDefinition[r].command # <<>>
                /\ \A j \in DOMAIN selectedDefinition[r].parameters :
                      selectedDefinition[r].parameters[j].type # ""

\* A file whose first entry has no command and whose second entry is valid
\* was listed: nothing of it was returned.
C19_Witness ==
    /\ file.state = "json"
    /\ Len(file.entries) = 2
    /\ file.entries[1].command = <<>>
    /\ EntryError(file.entries[2]) = ""
    /\ listResponse.code = 500
    /\ listResponse.body = <<>>

\* A file that loads with an id and a parameter type left out: the selected
\* definition has the derived id and the type "string".
C19_DefaultsReached ==
    \E r \in Reqs :
        /\ selectedDefinition[r] # NoDefinition
        /\ \E i \in DOMAIN file.entries :
              /\ file.entries[i].name = selectedDefinition[r].name
              /\ file.entries[i].id = <<>>
              /\ \E j \in DOMAIN file.entries[i].parameters :
                    /\ file.entries[i].parameters[j].type = ""
                    /\ selectedDefinition[r].parameters[j].type = "string"
        /\ selectedDefinition[r].id = DeriveID(selectedDefinition[r].name)

\* The places in the loaded definitions of the name the request asks for.
PlacesOfName(r) ==
    LET definitions == loadScriptDefinitions(file).definitions
    IN  {i \in DOMAIN definitions :
            definitions[i].name = request[r].TaskData[KeyName].text}

\* C20: a request that names a script selects one definition, the one at the
\* first place of that name in the loaded list, and it is the stage, the
\* parameters and the command of that definition that are used; when the
\* list loads and no definition has the name the request is answered 404.
C20_FirstOfNameSelected ==
    \A r \in Reqs : (NamesScript(r) /\ loadScriptDefinitions(file).err = "") =>
        LET definitions == loadScriptDefinitions(file).definitions IN
        /\ PlacesOfName(r) = {} =>
              /\ selectedDefinition[r] = NoDefinition
              /\ response[r].code = 404
        /\ \A i \in PlacesOfName(r) : (\A k \in PlacesOfName(r) : i <= k) =>
              /\ selectedDefinition[r] = definitions[i]
              /\ \A c \in Indices(r, "create post") :
                    log[r][c].payload.stage =
                        (IF definitions[i].stage # "" THEN definitions[i].stage
                         ELSE ProcessTrackingStage)
              /\ \A x \in Indices(r, "exec") :
                    LET fullCommand == log[r][x].fullCommand
                        command == definitions[i].command IN
                    /\ Len(fullCommand) >= Len(command)
                    /\ SubSeq(fullCommand, Len(fullCommand) - Len(command) + 1,
                              Len(fullCommand)) = command
                    /\ definitions[i].parameters = <<>> => fullCommand = command
              /\ ErrorOf(Outcome(r)) = MissingParameterError =>
                    \E j \in DOMAIN definitions[i].parameters :
                        definitions[i].parameters[j].name = Outcome(r).body.parameter

\* Two definitions have the requested name: the command of the first one was
\* run and its stage was sent, not those of the second.
C20_Witness ==
    \E r \in Reqs :
        /\ NamesScript(r)
        /\ Cardinality(PlacesOfName(r)) = 2
        /\ \E x \in Indices(r, "exec") : log[r][x].fullCommand = EntryWhere.command
        /\ \E c \in Indices(r, "create post") : log[r][c].payload.stage = ProcessTrackingStage
        /\ EntryWhereAgain.command # EntryWhere.command
        /\ EntryWhereAgain.stage # ""

\* C21: sanitizeEnvVarName applied to its own result gives that result
\* again, for every name: the empty one, the ones that start with a digit
\* and the ones made only of characters it replaces included.
C21_SanitizeIdempotent ==
    \A r \in Reqs : \A i \in Indices(r, "sanitize") :
        log[r][i].again = log[r][i].envVarName

\* A name that starts with a digit and goes on with two characters that are
\* replaced: the result is _7_ and stays so.
C21_Witness ==
    \E r \in Reqs : \E i \in Indices(r, "sanitize") :
        /\ log[r][i].name = <<"7", SP, "-">>
        /\ log[r][i].envVarName = <<"_", "7", "_">>
        /\ log[r][i].again = <<"_", "7", "_">>

\* The empty name and a name of replaced characters only.
C21_EmptyReached ==
    \E r \in Reqs : \E i \in Indices(r, "sanitize") :
        log[r][i].name = <<>> /\ log[r][i].envVarName = <<>>

C21_OnlyInvalidReached ==
    \E r \in Reqs : \E i \in Indices(r, "sanitize") :
        log[r][i].name = <<"-", SP, "-">> /\ log[r][i].envVarName = <<"_">>

\* C22: for every name that is not empty the name sanitizeEnvVarName gives
\* passes isValidEnvVarName (a letter or underscore first, then letters,
\* digits and underscores), so the loop over the parameters never ends with
\* the internal error for a declared name that is not empty.
C22_SanitizedNameValid ==
    \A r \in Reqs : \A i \in Indices(r, "sanitize") :
        LET envVarName == log[r][i].envVarName IN
        log[r][i].name # <<>> =>
            /\ log[r][i].valid
            /\ envVarName # <<>>
            /\ IsLetter(envVarName[1]) \/ envVarName[1] = "_"
            /\ \A k \in DOMAIN envVarName :
                  IsLetter(envVarName[k]) \/ IsDigit(envVarName[k]) \/ envVarName[k] = "_"
            /\ log[r][i].bound.err = ""
            /\ Len(log[r][i].bound.envVars) = 1

\* A name that starts with a digit was declared and bound without error.
C22_Witness ==
    \E r \in Reqs : \E i \in Indices(r, "sanitize") :
        /\ log[r][i].name = <<"7", "a">>
        /\ log[r][i].envVarName = <<"_", "7", "a">>
        /\ log[r][i].valid
        /\ log[r][i].bound.err = ""

\* The empty name is the one name for which the loop ends with the internal
\* error.
C22_OnlyEmptyNameInvalid ==
    \A r \in Reqs : \A i \in Indices(r, "sanitize") :
        log[r][i].bound.err = "internal" <=> log[r][i].name = <<>>

\* Under Spec: no request ends with the internal error.
C22_InternalErrorUnreachable ==
    \A r \in Reqs :
        ErrorOf(Outcome(r)) # "Internal server error processing parameter names"

\* The declared parameters of the selected definition whose name is a key of
\* taskData, in the order of the declaration.
GivenParameters(r) ==
    SelectSeq(selectedDefinition[r].parameters,
              LAMBDA paramDef : paramDef.name \in DOMAIN request[r].TaskData)

\* C23: the command line handed to the remote bash is the environment prefix
\* followed by the command of the script, and the prefix is, for each
\* declared parameter whose name is a key of taskData and in the order of the
\* declaration, its one assignment followed by one space, and nothing else: a
\* missing optional parameter adds nothing, and without any assignment the
\* prefix is empty.
C23_PrefixIsTheGivenAssignments ==
    \A r \in Reqs : \A x \in Indices(r, "exec") :
        LET given == GivenParameters(r)
            taskData == request[r].TaskData
            expected ==
                Concat([i \in DOMAIN given |->
                    sanitizeEnvVarName(given[i].name) \o <<EQ>>
                        \o GoQuote(Stringify(taskData[given[i].name])) \o <<SP>>])
        IN  /\ log[r][x].fullCommand = expected \o selectedDefinition[r].command
            /\ given = <<>> => log[r][x].fullCommand = selectedDefinition[r].command

\* Both parameters of a script were given: two assignments, in the order of
\* the declaration.
C23_Witness ==
    \E r \in Reqs : \E x \in Indices(r, "exec") :
        /\ Len(GivenParameters(r)) = 2
        /\ GivenParameters(r)[1].name = PDateRange
        /\ GivenParameters(r)[2].name = PSeconds
        /\ log[r][x].fullCommand =
               <<"D","a","t","e","_","R","a","n","g","e", EQ, DQ, "b", DQ, SP>>
               \o PSeconds \o <<EQ, DQ, "5", DQ, SP>> \o selectedDefinition[r].command

\* The optional parameter was left out: one assignment.
C23_OptionalOmittedReached ==
    \E r \in Reqs : \E x \in Indices(r, "exec") :
        /\ Len(selectedDefinition[r].parameters) = 2
        /\ Len(GivenParameters(r)) = 1
        /\ log[r][x].fullCommand =
               PSeconds \o <<EQ, DQ, "5", DQ, SP>> \o selectedDefinition[r].command

\* The remote command of the request returned without error.
Succeeded(r) == \E x \in Indices(r, "exec return") : ~log[r][x].failed

C25_FailureResponseCarriesWholeOutput ==
    \A r \in Reqs : \A x \in Indices(r, "exec return") : log[r][x].failed =>
        /\ pc[r] \in {"terminal update", "done"}
        /\ Outcome(r).code = 500
        /\ ErrorOf(Outcome(r)) = "Execution error"
        /\ Outcome(r).body.outputLen = log[r][x].outLen
        /\ Outcome(r).body.script_id = selectedDefinition[r].id
        /\ \A u \in TerminalUpdates(r) :
              log[r][u].message.output.len <= maxProcessTrackingMessageLength

\* A failed command with more output than an update carries, for a request
\* with the identifier 0, for which no update is sent.
C25_Witness ==
    \E r \in Reqs : \E x \in Indices(r, "exec return") :
        /\ pc[r] = "done"
        /\ log[r][x].failed
        /\ log[r][x].outLen > maxProcessTrackingMessageLength
        /\ numericProcessID[r] = 0
        /\ ~Happened(r, "update post")
        /\ response[r].body.outputLen = log[r][x].outLen

\* The same with the FAILED update sent, its output cut.
C25_TrackedReached ==
    \E r \in Reqs : \E x \in Indices(r, "exec return") :
        /\ pc[r] = "done"
        /\ log[r][x].failed
        /\ log[r][x].outLen > maxProcessTrackingMessageLength
        /\ \E u \in TerminalUpdates(r) : log[r][u].message.output.marker
        /\ response[r].body.outputLen = log[r][x].outLen

\* C26: a request whose creation returned an identifier (a number other than
\* zero, which stands for none) carries it in the X-ProcessId header of
\* whatever response follows, and a response of a request without an
\* identifier has no such header.
C26_HeaderWheneverIdentifier ==
    \A r \in Reqs : pc[r] = "done" =>
        LET obtained == \E c \in Creations(r) : log[r][c].id # 0 IN
        /\ obtained =>
              /\ "X_ProcessId" \in DOMAIN response[r].headers
              /\ response[r].headers.X_ProcessId = FormatInt(numericProcessID[r])
        /\ ~obtained => "X_ProcessId" \notin DOMAIN response[r].headers

\* What the code does: the header is set exactly for the identifiers above
\* zero, on each of the four responses that follow the creation.
C26_HeaderForPositiveIdentifier ==
    \A r \in Reqs : pc[r] = "done" =>
        /\ "X_ProcessId" \in DOMAIN response[r].headers <=> numericProcessID[r] > 0
        /\ numericProcessID[r] > 0 =>
              response[r].headers.X_ProcessId = FormatInt(numericProcessID[r])

C26_FourResponsesReached ==
    \E r \in Reqs :
        /\ pc[r] = "done"
        /\ numericProcessID[r] > 0
        /\ response[r].code = 400
        /\ "X_ProcessId" \in DOMAIN response[r].headers

\* The target query of the request failed: kubectl ended with an error, or
\* it named no pod.
ResolutionFailed(r) == \E g \in Indices(r, "get pod return") : log[r][g].err # ""

\* C27: the target query fails when kubectl fails and when it names no pod;
\* after that no remote command is run for the request, the response is an
\* error, and when the request has an identifier (a number other than zero)
\* a FAILED update for it is sent before the response.
C27_FailedUpdateAfterResolutionFailure ==
    /\ \A answer \in PodAnswers :
          (answer.err \/ answer.out = <<>>) <=> getTargetPod(answer).err # ""
    /\ \A r \in Reqs : ResolutionFailed(r) =>
          /\ ~Happened(r, "exec")
          /\ pc[r] \in {"terminal update", "done"}
          /\ Outcome(r).code = 500
          /\ \A c \in Creations(r) : log[r][c].id # 0 =>
                \E u \in UpdatesWith(r, FAILED) :
                    /\ log[r][u].id = log[r][c].id
                    /\ \A p \in Indices(r, "response") : u < p

\* What the code does: the same, with the FAILED update sent exactly when the
\* identifier is above zero.
C27_FailedUpdateForPositiveIdentifier ==
    \A r \in Reqs : ResolutionFailed(r) =>
        /\ ~Happened(r, "exec")
        /\ pc[r] \in {"terminal update", "done"}
        /\ Outcome(r).code = 500
        /\ ErrorOf(Outcome(r)) = "Failed to find target pod"
        /\ (UpdatesWith(r, FAILED) # {}) <=> numericProcessID[r] > 0
        /\ \A u \in UpdatesWith(r, FAILED) : \A p \in Indices(r, "response") : u < p

C27_NoPodReached ==
    \E r \in Reqs : \E g \in Indices(r, "get pod return") :
        /\ log[r][g].err = "no pod found matching label selector"
        /\ pc[r] = "done"
        /\ UpdatesWith(r, FAILED) # {}

\* A request was accepted: the handler of an execute request has started, or
\* a list request was answered.
Accepted == (\E r \in Reqs : pc[r] # "idle") \/ listResponse # NoResponse

\* The review of a permission was made and answered "allowed".
Verified(permission) ==
    \E i \in DOMAIN reviews :
        reviews[i].permission = permission /\ reviews[i].result = "allowed"

\* C28 as stated (refuted): a request is accepted only when the self-check
\* has verified that the service account may list pods, get pods and create
\* exec sessions, so an accepted request finds all three allowed.
C28_AcceptsOnlyWithEveryNeededPermission ==
    Accepted => \A permission \in Grants : permission \in rbac /\ Verified(permission)

\* C28, what main does: a request is accepted only when get pods and create
\* pods/exec were reviewed and allowed, and after a denial or a failed review
\* main has ended.
C28_AcceptsOnlyAfterReviewedPermissions ==
    /\ Accepted => server = "serving"
    /\ server = "serving" =>
           /\ Len(reviews) = Len(requiredPermissions)
           /\ \A i \in DOMAIN reviews :
                  reviews[i].permission = requiredPermissions[i]
                  /\ reviews[i].result = "allowed" /\ reviews[i].permission \in rbac
    /\ (\E i \in DOMAIN reviews : reviews[i].result # "allowed") => server = "exited"

\* C28: once main has ended it never serves.
C28_ExitedNeverServes == [][server = "exited" => server' = "exited"]_vars

\* C28: a service account that may not list pods passes the self-check, and
\* then no execute request gets as far as the kubectl exec line.
C28_WithoutListNothingExecutes ==
    ListPods \notin rbac => \A r \in Reqs : ~Happened(r, "exec")

\* C28: the service serves a request for a service account that may not list
\* pods, and the request fails at the pod lookup.
C28_ServingWithoutListReached ==
    /\ ListPods \notin rbac
    /\ server = "serving"
    /\ response["r1"].code = 500
    /\ ErrorOf(response["r1"]) = "Failed to find target pod"

\* What the model holds for one request.
StateOf(r) ==
    <<pc[r], request[r], selectedDefinition[r], numericProcessID[r],
      pending[r], response[r], log[r]>>

\* C29: under every interleaving of two execute requests, every update of a
\* request carries the identifier that the creation call of that same request
\* returned, and a step of one handler changes nothing of the other request:
\* no state is shared that one could wait for.
C29_RequestsIndependent ==
    /\ [](\A r \in Reqs : \A u \in Indices(r, "update post") :
              \E c \in Creations(r) :
                  /\ c < u
                  /\ log[r][u].id = log[r][c].id
                  /\ ParseInt(log[r][u].path).n = log[r][c].id)
    /\ [][\A r \in Reqs : pc'[r] # pc[r] =>
              \A q \in Reqs \ {r} : StateOf(q)' = StateOf(q)]_vars

\* The kubectl exec lines of two requests for the same script are running at
\* the same time, each request having sent its PROGRESS update for its own
\* identifier, the two identifiers being different.
C29_Witness ==
    /\ \A r \in Reqs :
          /\ pc[r] = "exec"
          /\ \E u \in Indices(r, "update post") : log[r][u].id = numericProcessID[r]
    /\ selectedDefinition["r1"] = selectedDefinition["r2"]
    /\ numericProcessID["r1"] # numericProcessID["r2"]

\* The handler of r starts in this step and gets as far as loading the
\* definitions.
StartsAndLoads(r) == pc[r] = "idle" /\ Happened(r, "load")'

\* C30: every execute request that starts works with the content the file
\* has at that moment: the load fails exactly when that content cannot be
\* loaded, the script is not found exactly when that content has no entry of
\* the name, and the definition selected is the first entry of the name in
\* that content.  Every list response that changes is the one of the content
\* the file has at that moment.
C30_EveryRequestReadsTheFile ==
    [][ /\ \A r \in Reqs : StartsAndLoads(r) =>
              LET loaded == loadScriptDefinitions(file)
                  name == request'[r].TaskData[KeyName].text
                  index == FirstMatch(loaded.definitions, name)
                  load == log'[r][CHOOSE i \in Indices(r, "load")' : TRUE]
              IN  /\ load.err = loaded.err
                  /\ loaded.err = "" /\ index = 0 =>
                         /\ response'[r].code = 404
                         /\ selectedDefinition'[r] = NoDefinition
                  /\ loaded.err = "" /\ index # 0 =>
                         selectedDefinition'[r] = loaded.definitions[index]
                  /\ loaded.err # "" =>
                         /\ response'[r].code = 500
                         /\ selectedDefinition'[r] = NoDefinition
        /\ listResponse' # listResponse => listResponse' = ListScriptsResponse(file)
      ]_vars

\* Two requests for the same name ended with different commands run, and
\* the list response is the one of a content that is neither: the file was
\* edited between them.
C30_Witness ==
    /\ \A r \in Reqs : pc[r] = "done" /\ Happened(r, "exec")
    /\ request["r1"] = request["r2"]
    /\ selectedDefinition["r1"].command # selectedDefinition["r2"].command
    /\ listResponse.code = 500

\* C30: after an edit that removed the script, a request for the name that an
\* earlier request ran is answered 404.
C30_RemovedScriptReached ==
    /\ Happened("r1", "exec")
    /\ response["r2"].code = 404
    /\ request["r1"] = request["r2"]
    /\ file = JSONFile(<<>>)

\* What a handler did, without how its updates were answered and without the
\* response it wrote.
RECURSIVE WithoutUpdateAnswers(_)
WithoutUpdateAnswers(events) ==
    IF events = <<>> THEN <<>>
    ELSE LET first == Head(events)
             rest == WithoutUpdateAnswers(Tail(events))
         IN  IF first.e = "response" THEN rest
             ELSE IF first.e = "update return" THEN <<[e |-> "update return"]>> \o rest
             ELSE <<first>> \o rest

\* The returns of updates that were not answered 200.
FailedUpdates(r) == {i \in Indices(r, "update return") : ~log[r][i].ok}

\* C31: how the updates of a request are answered changes nothing else: two
\* requests that differ only in the answers to their updates are at the same
\* place and have the same response (status, body and headers), and after the
\* PROGRESS update returns, answered or not, getTargetPod is called.
C31_UpdateAnswersChangeNothing ==
    /\ \A r, q \in Reqs :
          request[r] = request[q]
          /\ WithoutUpdateAnswers(log[r]) = WithoutUpdateAnswers(log[q])
          => pc[r] = pc[q] /\ response[r] = response[q]
    /\ \A r \in Reqs : \A i \in Indices(r, "update return") :
          log[r][i - 1].status = PROGRESS => log[r][i + 1].e = "get pod"

\* Two requests ran the command with success; both updates of the first
\* failed and both updates of the second were answered 200.
C31_Witness ==
    /\ \A r \in Reqs : pc[r] = "done" /\ Happened(r, "exec") /\ response[r].code = 200
    /\ request["r1"] = request["r2"]
    /\ WithoutUpdateAnswers(log["r1"]) = WithoutUpdateAnswers(log["r2"])
    /\ Cardinality(FailedUpdates("r1")) = 2
    /\ Cardinality(Indices("r2", "update return")) = 2
    /\ FailedUpdates("r2") = {}

\* C32: a request that was received ends with a response or stays for ever
\* at the kubectl exec line; a handler that is over wrote exactly one
\* response and none before; the handler leaves the exec line only when the
\* command returns, and a request at the exec line has no response and no
\* terminal update.
C32_OneResponseUnlessExecNeverReturns ==
    /\ \A r \in Reqs : (pc[r] # "idle") ~> (pc[r] = "done" \/ [](pc[r] = "exec"))
    /\ [](\A r \in Reqs :
            /\ Cardinality(Indices(r, "response")) = (IF pc[r] = "done" THEN 1 ELSE 0)
            /\ pc[r] = "exec" => response[r] = NoResponse /\ TerminalUpdates(r) = {})
    /\ [][\A r \in Reqs : pc[r] = "exec" /\ pc'[r] # "exec" =>
              log'[r][Len(log[r]) + 1].e = "exec return"]_vars

\* A request wrote its response after every call and the command returned.
C32_Witness ==
    /\ pc["r1"] = "done" /\ Happened("r1", "exec return")
    /\ Cardinality(Indices("r1", "response")) = 1
    /\ TerminalUpdates("r1") # {}

\* C32: a command is running, with the PROGRESS update sent and nothing
\* after it.
C32_RunningReached ==
    /\ pc["r1"] = "exec"
    /\ Indices("r1", "update post") # {}

\* A review was denied or its call failed.
CheckFailed == \E i \in DOMAIN reviews : reviews[i].result # "allowed"

\* C33 as stated (refuted): the process ends only when the permission check
\* failed.
C33_ExitOnlyOnFailedCheck == server = "exited" => CheckFailed

\* C33, what main does: the process ends only before it serves, when the
\* Kubernetes client cannot be set up (no review made), when a review is
\* denied or fails, or when the server cannot listen (every review allowed);
\* a process that serves goes on serving whatever happens to its requests.
C33_FatalOnlyAtStartup ==
    /\ [](server = "exited" =>
            /\ ~Accepted
            /\ \/ reviews = <<>>
               \/ Len(reviews) = Len(requiredPermissions) /\ ~CheckFailed
               \/ reviews[Len(reviews)].result # "allowed"
                  /\ \A i \in 1 .. Len(reviews) - 1 : reviews[i].result = "allowed")
    /\ [][server = "serving" => server' = "serving"]_vars

\* The service is serving after a request whose command failed.
C33_Witness ==
    /\ server = "serving"
    /\ \E r \in Reqs :
          /\ pc[r] = "done" /\ response[r].code = 500
          /\ \E i \in Indices(r, "exec return") : log[r][i].failed

\* C33: the process ended although every review was answered allowed (the
\* server could not listen), and ended before any review was made.
C33_ExitAfterPassedCheckReached ==
    server = "exited" /\ Len(reviews) = Len(requiredPermissions) /\ ~CheckFailed

C33_ExitBeforeCheckReached == server = "exited" /\ reviews = <<>>

\* C34 as stated (refuted): a request that selected a script whose
\* monitorProcess flag is false makes no creation call and no update call,
\* and holds no tracking identifier.
C34_NoTrackingWhenMonitorProcessFalse ==
    \A r \in Reqs :
        selectedDefinition[r] # NoDefinition /\ ~selectedDefinition[r].monitorProcess =>
            /\ ~Happened(r, "create call")
            /\ ~Happened(r, "create post")
            /\ ~Happened(r, "update post")
            /\ numericProcessID[r] = 0

\* C34: a script whose monitorProcess flag is false was run with a tracking
\* record created and both updates sent for it.
C34_TrackedAnywayReached ==
    \E r \in Reqs :
        /\ selectedDefinition[r] # NoDefinition /\ ~selectedDefinition[r].monitorProcess
        /\ pc[r] = "done" /\ Happened(r, "exec")
        /\ numericProcessID[r] > 0
        /\ Cardinality(Indices(r, "update post")) = 2

\* C34: the flag changes nothing: no request goes to getTargetPod without
\* the creation being called first.
C34_CreationAlwaysCalled ==
    \A r \in Reqs : Happened(r, "get pod") => Happened(r, "create call")

\* The PROGRESS updates a request sent.
ProgressUpdates(r) == {i \in Indices(r, "update post") : log[r][i].status = PROGRESS}

\* C35 as stated (refuted): a request that sent a PROGRESS update for an
\* identifier and wrote its response sent, between the two, a terminal
\* update for the same identifier, whatever the identifier is.
C35_TerminalUpdateAfterProgress ==
    \A r \in Reqs : \A p \in ProgressUpdates(r) : \A done \in Indices(r, "response") :
        \E t \in TerminalUpdates(r) :
            p < t /\ t < done /\ log[r][t].id = log[r][p].id

\* C35: the same for the identifiers above zero, where it holds.
C35_TerminalUpdateAfterProgressAboveZero ==
    \A r \in Reqs : \A p \in ProgressUpdates(r) : \A done \in Indices(r, "response") :
        log[r][p].id > 0 =>
            \E t \in TerminalUpdates(r) :
                p < t /\ t < done /\ log[r][t].id = log[r][p].id

\* C35: a request sent the PROGRESS update for a negative identifier, ran the
\* command and answered without any terminal update.
C35_LeftInProgressReached ==
    \E r \in Reqs :
        /\ pc[r] = "done" /\ Happened(r, "exec return")
        /\ \E p \in ProgressUpdates(r) : log[r][p].id < 0
        /\ TerminalUpdates(r) = {}

\* C35: for the identifier zero no update is sent at all.
C35_NoUpdateForZero ==
    \A r \in Reqs : \A u \in Indices(r, "update post") : log[r][u].id # 0

\* The name an assignment of the environment prefix assigns.
AssignedName(assignment) == SubSeq(assignment, 1, FirstEq(assignment) - 1)

\* The bindings of two parameters that the load accepted and the loop bound.
BoundPairs(r) ==
    {i \in Indices(r, "bind pair") :
        log[r][i].loadErr = "" /\ log[r][i].bound.err = ""}

\* C36 as stated (refuted): two declared parameters with different names
\* that are both given are assigned to different environment names.
C36_DistinctNamesDistinctVariables ==
    \A r \in Reqs : \A i \in BoundPairs(r) :
        LET envVars == log[r][i].bound.envVars
        IN  Len(envVars) = 2 /\ AssignedName(envVars[1]) # AssignedName(envVars[2])

\* C36: the load accepted two parameters with different names, both were
\* bound, and the prefix assigns one environment name twice, with the two
\* values.
C36_CollisionReached ==
    \E i \in BoundPairs("r1") :
        LET envVars == log["r1"][i].bound.envVars
        IN  /\ log["r1"][i].first # log["r1"][i].second
            /\ AssignedName(envVars[1]) = AssignedName(envVars[2])
            /\ envVars[1] # envVars[2]

\* C36: names that hold only letters, digits and underscores and do not
\* start with a digit are assigned as they are, so they never collide.
C36_NamesThatAreValidDoNotCollide ==
    \A r \in Reqs : \A i \in BoundPairs(r) :
        isValidEnvVarName(log[r][i].first) /\ isValidEnvVarName(log[r][i].second) =>
            LET envVars == log[r][i].bound.envVars
            IN  /\ AssignedName(envVars[1]) = log[r][i].first
                /\ AssignedName(envVars[2]) = log[r][i].second

\* The names the selected definition of a request declares, and the taskData
\* of the request without every other key.
DeclaredNames(r) ==
    {selectedDefinition[r].parameters[j].name : j \in DOMAIN selectedDefinition[r].parameters}

DeclaredOnly(r) ==
    [k \in DOMAIN request[r].TaskData \cap DeclaredNames(r) |-> request[r].TaskData[k]]

\* C37: the command line that is run is the one that the same request
\* without its undeclared keys gives: the prefix has one assignment for each
\* declared parameter that is given and none for any other key, and it is
\* followed by the command of the script as it is in the catalog.
C37_UndeclaredKeysChangeNothing ==
    \A r \in Reqs : \A x \in Indices(r, "exec") :
        LET definition == selectedDefinition[r]
            bound == BindLoop(definition.parameters, DeclaredOnly(r), <<>>)
            fullCommand == FullCommand(bound.envVars, definition.command)
        IN  /\ log[r][x].fullCommand = fullCommand
            /\ log[r][x].execCmd = ExecCmd(Namespace, log[r][x].targetPod, fullCommand)
            /\ Len(bound.envVars) = Len(GivenParameters(r))

\* A script without parameters was run for a request that gives two keys
\* besides the name: the command line is the command of the catalog.
C37_Witness ==
    \E r \in Reqs : \E x \in Indices(r, "exec") :
        /\ DeclaredNames(r) = {}
        /\ {PSeconds, PDateRange} \subseteq DOMAIN request[r].TaskData
        /\ log[r][x].fullCommand = selectedDefinition[r].command

\* C37: a script with one parameter was run for a request that gives it and
\* an undeclared key: one assignment.
C37_OneOfTwoBoundReached ==
    \E r \in Reqs : \E x \in Indices(r, "exec") :
        /\ DeclaredNames(r) = {PSeconds}
        /\ PDateRange \in DOMAIN request[r].TaskData
        /\ Len(GivenParameters(r)) = 1

\* The requests (handler and place in its log) that were given a generated
\* tracking identifier.
Generated ==
    {p \in Reqs \X (1 .. MaxGenerations) :
        p[2] \in DOMAIN log[p[1]] /\ log[p[1]][p[2]].generated}

\* C38 as stated (refuted): two requests never get the same generated
\* tracking identifier.
C38_GeneratedIdentifiersUnique ==
    \A p, q \in Generated :
        p # q => log[p[1]][p[2]].bodyTrackingID # log[q[1]][q[2]].bodyTrackingID

\* C38: the generated identifiers of two requests are the same exactly when
\* the two handlers read the same value from the clock.
C38_SameExactlyWhenSameReading ==
    \A p, q \in Generated :
        (log[p[1]][p[2]].bodyTrackingID = log[q[1]][q[2]].bodyTrackingID)
            <=> (log[p[1]][p[2]].now = log[q[1]][q[2]].now)

\* C38: two requests handled at the same time got the same generated
\* identifier.
C38_SameIdentifierReached ==
    /\ <<"r1", 1>> \in Generated /\ <<"r2", 1>> \in Generated
    /\ log["r1"][1].bodyTrackingID = log["r2"][1].bodyTrackingID

\* The body of the request was bound and its taskData has no key "name", or
\* one whose value is not a text or is the empty text.
NameUnusable(r) ==
    /\ request[r].bodyOK
    /\ \/ KeyName \notin DOMAIN request[r].TaskData
       \/ request[r].TaskData[KeyName].tag # "string"
       \/ request[r].TaskData[KeyName].text = <<>>

\* C39: a request whose taskData names no script is answered 400 in the step
\* that receives it, whatever the file holds: the definitions are not loaded
\* and no call is made to the tracking service or to kubectl.
C39_UnusableNameRejectedBeforeLoad ==
    \A r \in Reqs : NameUnusable(r) =>
        /\ pc[r] = "done"
        /\ response[r].code = 400
        /\ ErrorOf(response[r]) \in
               {"taskData must contain a 'name' field",
                "taskData 'name' field must be a non-empty string"}
        /\ (ErrorOf(response[r]) = "taskData must contain a 'name' field")
               <=> (KeyName \notin DOMAIN request[r].TaskData)
        /\ \A i \in DOMAIN log[r] : log[r][i].e \in {"received", "response"}

\* A request whose name is a number was answered 400 although the file
\* cannot be read, and one without the key although the file is malformed.
C39_Witness ==
    \E r \in Reqs :
        /\ NameUnusable(r) /\ pc[r] = "done" /\ response[r].code = 400
        /\ KeyName \in DOMAIN request[r].TaskData
        /\ request[r].TaskData[KeyName].tag = "number"
        /\ loadScriptDefinitions(file).err # ""

\* C39: the same for a request without the key and for one with an empty name.
C39_MissingKeyReached ==
    \E r \in Reqs :
        /\ NameUnusable(r) /\ pc[r] = "done"
        /\ KeyName \notin DOMAIN request[r].TaskData
        /\ loadScriptDefinitions(file).err # ""

C39_EmptyNameReached ==
    \E r \in Reqs :
        /\ NameUnusable(r) /\ pc[r] = "done"
        /\ KeyName \in DOMAIN request[r].TaskData
        /\ request[r].TaskData[KeyName] = VString(<<>>)

\* The character the derivation of an id makes of a character of the name.
SlugChar(c) ==
    IF c = SP THEN "-"
    ELSE IF c \in Range(Uppers) THEN Lowers[CHOOSE i \in DOMAIN Uppers : Uppers[i] = c]
    ELSE c

\* C40: the load leaves the name of every entry and every id that is given
\* as they are, and gives an entry without id the id that has, for each
\* character of the name, a hyphen for a space, the lower-case letter for an
\* upper-case one and the character itself otherwise.
C40_IdKeptOrDerivedFromName ==
    \A r \in Reqs : \A x \in Indices(r, "load pair") :
        LET entries == log[r][x].entries
            loaded == log[r][x].loaded
        IN  /\ loaded.err = ""
            /\ Len(loaded.definitions) = Len(entries)
            /\ \A i \in DOMAIN entries :
                  /\ loaded.definitions[i].name = entries[i].name
                  /\ entries[i].id # <<>> => loaded.definitions[i].id = entries[i].id
                  /\ entries[i].id = <<>> =>
                        /\ Len(loaded.definitions[i].id) = Len(entries[i].name)
                        /\ \A k \in DOMAIN entries[i].name :
                              loaded.definitions[i].id[k] = SlugChar(entries[i].name[k])

\* Two entries without id and with different names were loaded with the
\* same id, derived from a name with an upper-case letter and a space.
C40_Witness ==
    \E x \in Indices("r1", "load pair") :
        LET entries == log["r1"][x].entries
            definitions == log["r1"][x].loaded.definitions
        IN  /\ entries[1].id = <<>> /\ entries[2].id = <<>>
            /\ entries[1].name = <<"A", SP>>
            /\ entries[2].name = <<"A", "-">>
            /\ definitions[1].id = <<"a", "-">>
            /\ definitions[2].id = definitions[1].id

\* C40: an id that is given is kept with its upper-case letter and its space.
C40_ExplicitIdKeptReached ==
    \E x \in Indices("r1", "load pair") :
        /\ log["r1"][x].entries[1].id = <<"I", SP, "d">>
        /\ log["r1"][x].loaded.definitions[1].id = <<"I", SP, "d">>
        /\ log["r1"][x].loaded.definitions[2].id # log["r1"][x].entries[2].id

====
